---- MODULE Spec2Model ----
(***************************************************************************)
(* The virtual file system of term-e-ditor: TreeNode / TreeStructure       *)
(* (tree.js) and VirtualFileSystem (vfs.js), as a state machine.           *)
(*                                                                         *)
(* Strings.  A path string is represented by the sequence of its segments  *)
(* under String.prototype.split('/'): "/a/b" is <<"", "a", "b">>, "/" is   *)
(* <<"", "">>, "a/" is <<"a", "">> and the empty string is <<"">>.  split  *)
(* and join('/') are mutually inverse between strings and non-empty        *)
(* sequences of slash-free strings, so the representation loses nothing.   *)
(* Node keys are TLA+ strings without '/'.                                 *)
(*                                                                         *)
(* Heap.  TreeNode objects are the entries of `nodes`, indexed by object   *)
(* identity 1..MaxNodes; NULL is JavaScript's null.  An object no          *)
(* reference reaches (from tree.root, cwd or the path cache) is garbage    *)
(* and its slot is free again.                                             *)
(***************************************************************************)
EXTENDS Integers, Sequences, FiniteSets, TLC

VARIABLES nodes, root, cwd, pathCache, halted, calls,
          sessionStack, onEnterCalls, onExitCalls, ps1_backup, promptPS1, sessionLog

\* The file system and the calls made on it.
vfsVars == <<nodes, root, cwd, pathCache, halted, calls>>

\* The session manager of the terminal, the prompt it sets, the number of
\* times each session's onEnter and onExit have run, and the calls made on it.
sessionVars == <<sessionStack, onEnterCalls, onExitCalls, ps1_backup, promptPS1, sessionLog>>

vars == <<nodes, root, cwd, pathCache, halted, calls,
          sessionStack, onEnterCalls, onExitCalls, ps1_backup, promptPS1, sessionLog>>

\* ------------------------------------------------------------------ bounds
\* Number of TreeNode objects that may be alive at once.
MaxNodes == 6
\* Number of calls made on one file system.
MaxCalls == 3
\* Longest file contents (appending stops there).
MaxContent == 2
\* Capacity of the path cache: this._maxCacheSize, 1000 in vfs.js:22, scaled
\* down so that eviction happens within the bounds.
MaxCacheSize == 2
\* Number of calls made on one session manager.
MaxSessionCalls == 5

\* null (tree.js:17 `this.parent = null`, vfs.js:18 `this.cwd = null`)
NULL == 0

NodeIds == 1..MaxNodes

\* ----------------------------------------------------------------- strings
EmptyStr == <<"">>
Slash == <<"", "">>
Dot == <<".">>

\* path.startsWith('/')
StartsWithSlash(path) == Len(path) >= 2 /\ path[1] = ""

\* array.filter(Boolean) on an array of strings
FilterBoolean(segs) == SelectSeq(segs, LAMBDA x : x # "")

\* array.join('/'): the joined string; [] joins to the empty string
Join(segs) == IF segs = <<>> THEN EmptyStr ELSE segs

\* '/' + str
SlashPlus(str) == <<"">> \o str

\* str || '/'
OrSlash(str) == IF str = EmptyStr THEN Slash ELSE str

\* path.replace(/\/+$/g, "")
RECURSIVE StripTrailingSlashes(_)
StripTrailingSlashes(path) ==
    IF Len(path) > 1 /\ path[Len(path)] = ""
    THEN StripTrailingSlashes(SubSeq(path, 1, Len(path) - 1))
    ELSE path

\* The characters of a key or pattern ("" has none; every other string of
\* the model that is not listed is a single character).
Chars(k) ==
    CASE k = ""    -> <<>>
      [] k = ".."  -> <<".", ".">>
      [] k = "a?*" -> <<"a", "?", "*">>
      [] k = "(*"  -> <<"(", "*">>
      [] OTHER     -> <<k>>

\* The characters of a path string.
RECURSIVE PathChars(_)
PathChars(path) ==
    IF Len(path) = 1 THEN Chars(path[1])
    ELSE PathChars(SubSeq(path, 1, Len(path) - 1)) \o <<"/">> \o Chars(path[Len(path)])

\* a.startsWith(b) on path strings
StringStartsWith(a, b) ==
    LET ca == PathChars(a)
        cb == PathChars(b)
    IN  Len(cb) <= Len(ca) /\ SubSeq(ca, 1, Len(cb)) = cb

\* new Blob([contents]).size for contents of one-byte characters
BlobSize(contents) == Len(contents)

\* -------------------------------------------------------------------- heap
\* contents: null (directories)
NullContents == <<"null">>

EmptyMap == [k \in {} |-> NULL]

MapHas(m, k) == k \in DOMAIN m
\* Map.get(k) || null
MapGet(m, k) == IF k \in DOMAIN m THEN m[k] ELSE NULL
MapSet(m, k, v) == [x \in (DOMAIN m) \cup {k} |-> IF x = k THEN v ELSE m[x]]
MapDelete(m, k) == [x \in (DOMAIN m) \ {k} |-> m[x]]

\* A free heap slot.
FreeNode ==
    [key |-> "", type |-> "free", parent |-> NULL, children |-> <<>>,
     childrenMap |-> EmptyMap, contents |-> NullContents, size |-> 0,
     extra |-> EmptyMap]

\* new TreeNode(key, properties): tree.js constructor, with the properties
\* type, contents and size; extra holds every other own property of the node
TreeNode(key, type, contents, size) ==
    [key |-> key, type |-> type, parent |-> NULL, children |-> <<>>,
     childrenMap |-> EmptyMap, contents |-> contents, size |-> size,
     extra |-> EmptyMap]

IsFree(s, i) == s.nodes[i].type = "free"
FreeIds(s) == {i \in NodeIds : IsFree(s, i)}
\* The identity of the next object created.
NextId(s) == CHOOSE i \in FreeIds(s) : \A j \in FreeIds(s) : i <= j

SeqToSet(q) == {q[i] : i \in 1..Len(q)}

\* array.indexOf(x), 1-based; 0 when absent
IndexOf(q, x) ==
    IF x \in SeqToSet(q) THEN CHOOSE i \in 1..Len(q) : q[i] = x /\ \A j \in 1..(i - 1) : q[j] # x
    ELSE 0

\* array.splice(i, 1)
RemoveAt(q, i) == SubSeq(q, 1, i - 1) \o SubSeq(q, i + 1, Len(q))

\* The objects a node refers to.
Refs(s, i) ==
    (SeqToSet(s.nodes[i].children) \cup {s.nodes[i].parent}
        \cup {s.nodes[i].childrenMap[k] : k \in DOMAIN s.nodes[i].childrenMap}) \ {NULL}

RECURSIVE Closure(_, _)
Closure(s, set) ==
    LET more == set \cup UNION {Refs(s, i) : i \in set}
    IN  IF more = set THEN set ELSE Closure(s, more)

\* The objects reachable from the references the file system holds.
Live(s) ==
    Closure(s, ({s.root, s.cwd} \cup {s.cache[i].node : i \in 1..Len(s.cache)}) \ {NULL})

\* The live objects in the order a traversal from the references of the file
\* system meets them: `stack` is still to visit, `seen` has been visited.
RECURSIVE Visit(_, _, _)
Visit(s, stack, seen) ==
    IF stack = <<>> THEN seen
    ELSE LET n == Head(stack)
         IN  IF n = NULL \/ n \in SeqToSet(seen) THEN Visit(s, Tail(stack), seen)
             ELSE Visit(s, s.nodes[n].children \o <<s.nodes[n].parent>> \o Tail(stack),
                        Append(seen, n))

RECURSIVE Ascending(_)
Ascending(set) ==
    IF set = {} THEN <<>>
    ELSE LET m == CHOOSE x \in set : \A y \in set : x <= y
         IN  <<m>> \o Ascending(set \ {m})

\* Garbage collection.  Unreachable objects give their slots back, and the
\* live objects are renumbered in traversal order: object identities carry no
\* meaning beyond equality, so the renumbered heap is the same heap.
Collect(s) ==
    LET seeds == <<s.root, s.cwd>> \o [i \in 1..Len(s.cache) |-> s.cache[i].node]
        first == Visit(s, seeds, <<>>)
        order == first \o Ascending(Live(s) \ SeqToSet(first))
        To(n) == IF n = NULL THEN NULL ELSE CHOOSE i \in 1..Len(order) : order[i] = n
        Moved(n) == [n EXCEPT !.parent = To(@),
                              !.children = [i \in 1..Len(@) |-> To(@[i])],
                              !.childrenMap = [k \in DOMAIN @ |-> To(@[k])]]
    IN  [nodes |-> [i \in NodeIds |-> IF i <= Len(order) THEN Moved(s.nodes[order[i]])
                                      ELSE FreeNode],
         root |-> To(s.root),
         cwd |-> To(s.cwd),
         cache |-> [i \in 1..Len(s.cache) |-> [path |-> s.cache[i].path,
                                               node |-> To(s.cache[i].node)]]]

\* ---------------------------------------------------------------- TreeNode
\* TreeNode.insert without the check for a duplicate key.
TreeNode_insert_Unchecked(s, this, child) ==
    [st |-> [s EXCEPT
               !.nodes[this].children = Append(@, child),
               !.nodes[this].childrenMap = MapSet(@, s.nodes[child].key, child),
               !.nodes[child].parent = this],
     res |-> "ok"]

\* TreeNode.insert(child): the state afterwards and "ok", or the unchanged
\* state and "DuplicateName".
TreeNode_insert(s, this, child) ==
    IF MapHas(s.nodes[this].childrenMap, s.nodes[child].key)
    THEN [st |-> s, res |-> "DuplicateName"]
    ELSE [st |-> [s EXCEPT
                    !.nodes[this].children = Append(@, child),
                    !.nodes[this].childrenMap = MapSet(@, s.nodes[child].key, child),
                    !.nodes[child].parent = this],
          res |-> "ok"]

\* TreeNode.delete(child): true iff the child was removed
TreeNode_deleteFound(s, this, child) == IndexOf(s.nodes[this].children, child) # 0

\* TreeNode.delete that leaves the child's parent reference in place.
TreeNode_delete_KeepsParent(s, this, child) ==
    LET index == IndexOf(s.nodes[this].children, child)
    IN  IF index # 0
        THEN [s EXCEPT
                !.nodes[this].children = RemoveAt(@, index),
                !.nodes[this].childrenMap = MapDelete(@, s.nodes[child].key)]
        ELSE s

\* TreeNode.delete(child): the state afterwards
TreeNode_delete(s, this, child) ==
    LET index == IndexOf(s.nodes[this].children, child)
    IN  IF index # 0
        THEN [s EXCEPT
                !.nodes[this].children = RemoveAt(@, index),
                !.nodes[this].childrenMap = MapDelete(@, s.nodes[child].key),
                !.nodes[child].parent = NULL]
        ELSE s

\* TreeNode.findChild(key)
findChild(s, this, key) == MapGet(s.nodes[this].childrenMap, key)

\* TreeNode.hasChild(key)
hasChild(s, this, key) == MapHas(s.nodes[this].childrenMap, key)

\* The loop of TreeNode.isAncestorOf, started at `current`: "true", "false",
\* or "hang" when the parent chain never ends (fuel counts the objects).
RECURSIVE AncestorLoop(_, _, _, _)
AncestorLoop(s, this, current, fuel) ==
    IF current = NULL THEN "false"
    ELSE IF current = this THEN "true"
    ELSE IF fuel = 0 THEN "hang"
    ELSE AncestorLoop(s, this, s.nodes[current].parent, fuel - 1)

\* isAncestorOf that looks at the parent only, not up the chain.
isAncestorOf_ParentOnly(s, this, node) ==
    IF s.nodes[node].parent = this THEN "true" ELSE "false"

\* this.isAncestorOf(node)
isAncestorOf(s, this, node) == AncestorLoop(s, this, s.nodes[node].parent, MaxNodes)

\* The objects of the subtree of `this` (children links), and whether the
\* recursion over children ends: it does not when a node is below itself.
RECURSIVE Descend(_, _, _)
Descend(s, set, fuel) ==
    LET more == set \cup UNION {SeqToSet(s.nodes[i].children) : i \in set}
    IN  IF more = set \/ fuel = 0 THEN set ELSE Descend(s, more, fuel - 1)

Subtree(s, this) == Descend(s, {this}, MaxNodes)

ProperDescendants(s, this) == Descend(s, SeqToSet(s.nodes[this].children), MaxNodes)

\* A recursion over the children of `this` (clone, search, getSubtreeSize)
\* never returns: some node of the subtree is its own descendant.
RecursionOverflows(s, this) == \E n \in Subtree(s, this) : n \in ProperDescendants(s, n)

\* --------------------------------------------------------------- path layer
\* The loop of _absolute_path from `current`: the nodes whose keys are
\* unshifted, top-most first; <<-1>> in front when the loop never ends.
RECURSIVE AbsoluteWalk(_, _, _)
AbsoluteWalk(s, current, fuel) ==
    IF current = NULL \/ current = s.root THEN <<>>
    ELSE IF fuel = 0 THEN <<-1>>
    ELSE AbsoluteWalk(s, s.nodes[current].parent, fuel - 1) \o <<current>>

\* _absolute_path(node) does not return.
AbsolutePathHangs(s, node) ==
    LET w == AbsoluteWalk(s, node, MaxNodes) IN w # <<>> /\ w[1] = -1

\* VirtualFileSystem._absolute_path(node)
_absolute_path(s, node) ==
    IF node = NULL THEN Slash
    ELSE LET w == AbsoluteWalk(s, node, MaxNodes)
         IN  SlashPlus(Join([i \in 1..Len(w) |-> s.nodes[w[i]].key]))

\* The for loop of _normalizePath over segments[i..]
RECURSIVE NormalizeLoop(_, _, _)
NormalizeLoop(resolvedSegments, segments, i) ==
    IF i > Len(segments) THEN resolvedSegments
    ELSE IF segments[i] = ".."
         THEN NormalizeLoop(IF Len(resolvedSegments) > 0
                            THEN SubSeq(resolvedSegments, 1, Len(resolvedSegments) - 1)
                            ELSE resolvedSegments, segments, i + 1)
         ELSE NormalizeLoop(Append(resolvedSegments, segments[i]), segments, i + 1)

\* _normalizePath(path) reads the current directory's path and that never returns.
NormalizeHangs(s, path) ==
    /\ path # Slash
    /\ (path = EmptyStr \/ path = Dot \/ ~StartsWithSlash(path))
    /\ AbsolutePathHangs(s, s.cwd)

\* VirtualFileSystem._normalizePath(path)
_normalizePath(s, path) ==
    IF path = EmptyStr \/ path = Dot THEN _absolute_path(s, s.cwd)
    ELSE IF path = Slash THEN Slash
    ELSE LET basePath == IF StartsWithSlash(path) THEN Slash ELSE _absolute_path(s, s.cwd)
             segments == SelectSeq(path, LAMBDA x : x # "" /\ x # ".")
             resolvedSegments == IF basePath = Slash THEN <<>> ELSE FilterBoolean(basePath)
         IN  SlashPlus(Join(NormalizeLoop(resolvedSegments, segments, 1)))

\* The for loop of _resolvePathUncached from segments[i], at node `current`.
RECURSIVE UncachedLoop(_, _, _, _)
UncachedLoop(s, segments, current, i) ==
    IF i > Len(segments) THEN [res |-> "ok", node |-> current, partial |-> <<>>]
    ELSE IF current = NULL THEN [res |-> "TypeError", node |-> NULL, partial |-> <<>>]
    ELSE LET found == findChild(s, current, segments[i])
         IN  IF found = NULL
             THEN [res |-> "PathNotFound", node |-> NULL,
                   partial |-> SlashPlus(Join(SubSeq(segments, 1, i)))]
             ELSE UncachedLoop(s, segments, found, i + 1)

\* _resolvePathUncached that reports the whole path when a segment is missing.
_resolvePathUncached_WholePath(s, normalizedPath) ==
    LET r == IF normalizedPath = Slash THEN [res |-> "ok", node |-> s.root, partial |-> <<>>]
             ELSE UncachedLoop(s, FilterBoolean(normalizedPath), s.root, 1)
    IN  IF r.res = "PathNotFound" THEN [r EXCEPT !.partial = normalizedPath] ELSE r

\* VirtualFileSystem._resolvePathUncached(normalizedPath)
_resolvePathUncached(s, normalizedPath) ==
    IF normalizedPath = Slash THEN [res |-> "ok", node |-> s.root, partial |-> <<>>]
    ELSE UncachedLoop(s, FilterBoolean(normalizedPath), s.root, 1)

\* this._pathCache: entries in insertion order
CacheHas(cache, key) == \E i \in 1..Len(cache) : cache[i].path = key
CacheGet(cache, key) == cache[CHOOSE i \in 1..Len(cache) : cache[i].path = key].node
CacheDelete(cache, key) == SelectSeq(cache, LAMBDA e : e.path # key)
CacheKeys(cache) == {cache[i].path : i \in 1..Len(cache)}
\* Map.set: a present key keeps its place
CacheSet(cache, key, node) ==
    IF CacheHas(cache, key)
    THEN [i \in 1..Len(cache) |-> IF cache[i].path = key
                                  THEN [path |-> key, node |-> node] ELSE cache[i]]
    ELSE Append(cache, [path |-> key, node |-> node])

\* The caching tail of _resolve_path evicting the entry inserted last.
ResolveMiss_EvictsNewest(s, normalizedPath) ==
    LET r == _resolvePathUncached(s, normalizedPath)
        evicted == IF Len(s.cache) >= MaxCacheSize
                   THEN SubSeq(s.cache, 1, Len(s.cache) - 1) ELSE s.cache
    IN  IF r.res # "ok" THEN [st |-> s, res |-> r.res, node |-> NULL, partial |-> r.partial]
        ELSE [st |-> [s EXCEPT !.cache = CacheSet(evicted, normalizedPath, r.node)],
              res |-> "ok", node |-> r.node, partial |-> <<>>]

\* The caching tail of _resolve_path (vfs.js:121-130), the cache entry having
\* missed.
ResolveMiss(s, normalizedPath) ==
    LET r == _resolvePathUncached(s, normalizedPath)
        evicted == IF Len(s.cache) >= MaxCacheSize
                   THEN CacheDelete(s.cache, s.cache[1].path) ELSE s.cache
    IN  IF r.res # "ok" THEN [st |-> s, res |-> r.res, node |-> NULL, partial |-> r.partial]
        ELSE [st |-> [s EXCEPT !.cache = CacheSet(evicted, normalizedPath, r.node)],
              res |-> "ok", node |-> r.node, partial |-> <<>>]

\* VirtualFileSystem._resolve_path(path): the state afterwards (the cache may
\* have changed), the outcome and the node returned.
_resolve_path(s, path) ==
    IF path = EmptyStr \/ path = Dot
    THEN [st |-> s, res |-> "ok", node |-> s.cwd, partial |-> <<>>]
    ELSE IF path = Slash
    THEN [st |-> s, res |-> "ok", node |-> s.root, partial |-> <<>>]
    ELSE IF NormalizeHangs(s, path)
    THEN [st |-> s, res |-> "hang", node |-> NULL, partial |-> <<>>]
    ELSE LET normalizedPath == _normalizePath(s, path)
         IN  IF CacheHas(s.cache, normalizedPath)
             THEN LET cached == CacheGet(s.cache, normalizedPath)
                  IN  \* `cached.parent !== undefined` holds of every TreeNode
                      IF cached # NULL
                      THEN [st |-> s, res |-> "ok", node |-> cached, partial |-> <<>>]
                      ELSE ResolveMiss([s EXCEPT !.cache = CacheDelete(@, normalizedPath)],
                                       normalizedPath)
             ELSE ResolveMiss(s, normalizedPath)

\* The keys _invalidatePathCache(path) deletes.
InvalidatedKeys(path) ==
    {path} \cup {OrSlash(SubSeq(path, 1, i)) : i \in 1..(Len(path) - 1)}

\* VirtualFileSystem._invalidatePathCache(path)
_invalidatePathCache(s, path) ==
    [s EXCEPT !.cache = SelectSeq(@, LAMBDA e : e.path \notin InvalidatedKeys(path))]

\* ------------------------------------------------------------ TreeStructure
\* TreeStructure.insert(key, parent, properties) with parent null or a
\* TreeNode: the state afterwards, the outcome and the node created.
TreeStructure_insert(s, key, parent, type, contents, size) ==
    IF key = "" THEN [st |-> s, res |-> "InvalidArgument", node |-> NULL]
    ELSE IF FreeIds(s) = {} THEN [st |-> s, res |-> "OutOfBounds", node |-> NULL]
    ELSE LET node == NextId(s)
             s1 == [s EXCEPT !.nodes[node] = TreeNode(key, type, contents, size)]
         IN  IF parent = NULL /\ s.root = NULL
             THEN [st |-> [s1 EXCEPT !.root = node], res |-> "ok", node |-> node]
             ELSE IF parent = NULL
             THEN [st |-> s, res |-> "RootExists", node |-> NULL]
             ELSE LET r == TreeNode_insert(s1, parent, node)
                  IN  IF r.res = "ok" THEN [st |-> r.st, res |-> "ok", node |-> node]
                      ELSE [st |-> s, res |-> r.res, node |-> NULL]

\* TreeStructure.delete(node) with a TreeNode
TreeStructure_delete(s, node) ==
    IF node = s.root THEN [s EXCEPT !.root = NULL]
    ELSE IF s.nodes[node].parent # NULL
    THEN TreeNode_delete(s, s.nodes[node].parent, node)
    ELSE s

\* --------------------------------------------------------- VirtualFileSystem
\* A JSON record of initStructure: [key, type, contents, children].
RECURSIVE initStructure(_, _, _)
RECURSIVE InitChildren(_, _, _, _)
\* The `for (const childData of node.contents)` loop of initStructure
InitChildren(s, children, nodeData, i) ==
    IF i > Len(children) THEN [st |-> s, res |-> "ok", node |-> nodeData]
    ELSE LET r == initStructure(s, children[i], nodeData)
         IN  IF r.res # "ok" THEN r ELSE InitChildren(r.st, children, nodeData, i + 1)

\* VirtualFileSystem.initStructure(node, parent)
initStructure(s, node, parent) ==
    IF node.key = "" THEN [st |-> s, res |-> "InvalidArgument", node |-> NULL]
    ELSE LET isDir == node.type = "dir"
             r == TreeStructure_insert(s, node.key, parent, node.type,
                                       IF isDir THEN NullContents ELSE node.contents,
                                       IF isDir THEN 0 ELSE Len(node.contents))
             s1 == IF r.st.cwd = NULL /\ parent = NULL THEN [r.st EXCEPT !.cwd = r.node] ELSE r.st
         IN  IF r.res # "ok" THEN r
             ELSE InitChildren(s1, IF isDir THEN node.children ELSE <<>>, r.node, 1)

\* The `for (const segment of segments)` loop of mkdir from segments[i]
RECURSIVE MkdirLoop(_, _, _, _)
MkdirLoop(s, segments, current, i) ==
    IF i > Len(segments) THEN [st |-> s, res |-> "ok"]
    ELSE IF current = NULL THEN [st |-> s, res |-> "TypeError"]
    ELSE LET existing == findChild(s, current, segments[i])
         IN  IF existing = NULL
             THEN IF FreeIds(s) = {} THEN [st |-> s, res |-> "OutOfBounds"]
                  ELSE LET newDir == NextId(s)
                           s1 == [s EXCEPT !.nodes[newDir] =
                                     TreeNode(segments[i], "dir", NullContents, 0)]
                           r == TreeNode_insert(s1, current, newDir)
                       IN  IF r.res # "ok" THEN [st |-> s, res |-> r.res]
                           ELSE MkdirLoop(r.st, segments, newDir, i + 1)
             ELSE IF s.nodes[existing].type = "dir"
             THEN MkdirLoop(s, segments, existing, i + 1)
             ELSE [st |-> s, res |-> "NotADirectory"]

\* VirtualFileSystem.mkdir(path)
mkdir(s, path) ==
    IF path = EmptyStr THEN [st |-> s, res |-> "InvalidArgument"]
    ELSE LET r == MkdirLoop(s, FilterBoolean(StripTrailingSlashes(path)),
                            IF StartsWithSlash(path) THEN s.root ELSE s.cwd, 1)
         IN  IF r.res = "ok" THEN [st |-> _invalidatePathCache(r.st, path), res |-> "ok"]
             ELSE r

\* The end of rmdir (vfs.js:275-282), the node having been deleted from the
\* tree: s is the state after this.tree.delete(node).
rmdir_deleted(s, node, path) ==
    IF AbsolutePathHangs(s, s.cwd) \/ AbsolutePathHangs(s, node)
    THEN [st |-> s, res |-> "hang"]
    ELSE IF StringStartsWith(_absolute_path(s, s.cwd), _absolute_path(s, node))
    THEN [st |-> _invalidatePathCache(
                    [s EXCEPT !.cwd = IF s.nodes[node].parent # NULL
                                      THEN s.nodes[node].parent ELSE s.root], path),
          res |-> "ok"]
    ELSE [st |-> _invalidatePathCache(s, path), res |-> "ok"]

\* rmdir from the resolved node on (vfs.js:260-282), r being the outcome of
\* _resolve_path.
rmdir_resolved(r, path) ==
    IF r.res # "ok" THEN [st |-> r.st, res |-> r.res]
    ELSE IF r.node = r.st.root THEN [st |-> r.st, res |-> "CannotModifyRoot"]
    ELSE IF r.node = NULL THEN [st |-> r.st, res |-> "TypeError"]
    ELSE IF r.st.nodes[r.node].type # "dir" THEN [st |-> r.st, res |-> "NotADirectory"]
    ELSE IF Len(r.st.nodes[r.node].children) > 0
    THEN [st |-> r.st, res |-> "NonEmptyDirectory"]
    ELSE rmdir_deleted(TreeStructure_delete(r.st, r.node), r.node, path)

\* VirtualFileSystem.rmdir(path)
rmdir(s, path) ==
    IF path = EmptyStr THEN [st |-> s, res |-> "InvalidArgument"]
    ELSE rmdir_resolved(_resolve_path(s, StripTrailingSlashes(path)), path)

\* VirtualFileSystem.cd(path)
cd(s, path) ==
    IF path = EmptyStr THEN [st |-> s, res |-> "InvalidArgument"]
    ELSE LET r == _resolve_path(s, path)
         IN  IF r.res # "ok" THEN [st |-> r.st, res |-> r.res]
             ELSE IF r.node = NULL THEN [st |-> r.st, res |-> "TypeError"]
             ELSE IF r.st.nodes[r.node].type # "dir" THEN [st |-> r.st, res |-> "NotADirectory"]
             ELSE [st |-> [r.st EXCEPT !.cwd = r.node], res |-> "ok"]

\* node.contents || ""
ContentsOrEmpty(contents) == IF contents = NullContents THEN <<>> ELSE contents

\* The file name cat takes from path: segments.pop()
cat_fileName(path) ==
    LET segments == StripTrailingSlashes(path) IN segments[Len(segments)]

\* The parent path cat takes from path:
\* segments.join("/") || (path.startsWith('/') ? '/' : '.')
cat_parentPath(path) ==
    LET segments == StripTrailingSlashes(path)
        joined == Join(SubSeq(segments, 1, Len(segments) - 1))
    IN  IF joined # EmptyStr THEN joined
        ELSE IF StartsWithSlash(path) THEN Slash ELSE Dot

\* The end of the writing branch of cat (vfs.js:345-350): `node` is the file
\* written in s1, s0 the state before the branch.
cat_store(s0, s1, node, mode, path, contents) ==
    LET newContents == IF mode = ">" THEN contents
                       ELSE ContentsOrEmpty(s1.nodes[node].contents) \o contents
    IN  IF Len(newContents) > MaxContent
        THEN [st |-> s0, res |-> "OutOfBounds", out |-> <<>>]
        ELSE [st |-> _invalidatePathCache(
                        [s1 EXCEPT !.nodes[node].contents = newContents,
                                   !.nodes[node].size = BlobSize(newContents)], path),
              res |-> "ok", out |-> <<>>]

\* The writing branch of cat (vfs.js:327-350): `found` is
\* parent.findChild(fileName).
cat_write(s, parent, found, fileName, mode, path, contents) ==
    IF found = NULL
    THEN IF FreeIds(s) = {} THEN [st |-> s, res |-> "OutOfBounds", out |-> <<>>]
         ELSE cat_store(s,
                        TreeNode_insert(
                            [s EXCEPT !.nodes[NextId(s)] = TreeNode(fileName, "file", <<>>, 0)],
                            parent, NextId(s)).st,
                        NextId(s), mode, path, contents)
    ELSE IF s.nodes[found].type # "file" THEN [st |-> s, res |-> "NotAFile", out |-> <<>>]
    ELSE cat_store(s, s, found, mode, path, contents)

\* The reading branch of cat (vfs.js:352-361)
cat_read(s, found) ==
    IF found = NULL THEN [st |-> s, res |-> "PathNotFound", out |-> <<>>]
    ELSE IF s.nodes[found].type # "file" THEN [st |-> s, res |-> "NotAFile", out |-> <<>>]
    ELSE [st |-> s, res |-> "ok", out |-> ContentsOrEmpty(s.nodes[found].contents)]

\* cat from `parent.findChild(fileName)` on (vfs.js:324-362), r being the
\* outcome of resolving the parent path.
cat_resolved(r, mode, path, contents) ==
    IF r.res # "ok" THEN [st |-> r.st, res |-> r.res, out |-> <<>>]
    ELSE IF r.node = NULL THEN [st |-> r.st, res |-> "TypeError", out |-> <<>>]
    ELSE IF mode # ""
    THEN cat_write(r.st, r.node, findChild(r.st, r.node, cat_fileName(path)),
                   cat_fileName(path), mode, path, contents)
    ELSE cat_read(r.st, findChild(r.st, r.node, cat_fileName(path)))

\* VirtualFileSystem.cat(mode, path, contents): `out` is the string a read
\* returns.
cat(s, mode, path, contents) ==
    IF path = EmptyStr THEN [st |-> s, res |-> "InvalidArgument", out |-> <<>>]
    ELSE cat_resolved(_resolve_path(s, cat_parentPath(path)), mode, path, contents)

\* VirtualFileSystem.rm(path)
rm(s, path) ==
    IF path = EmptyStr THEN [st |-> s, res |-> "InvalidArgument"]
    ELSE LET r == _resolve_path(s, StripTrailingSlashes(path))
         IN  IF r.res # "ok" THEN [st |-> r.st, res |-> r.res]
             ELSE IF r.node = NULL THEN [st |-> r.st, res |-> "TypeError"]
             ELSE IF r.st.nodes[r.node].type # "file" THEN [st |-> r.st, res |-> "NotAFile"]
             ELSE [st |-> _invalidatePathCache(TreeStructure_delete(r.st, r.node), path),
                   res |-> "ok"]

\* rn that takes the node out of its parent and inserts it again under the
\* new name, at the end of the child list.
rn_update_Reinserts(s, node, parent, newName) ==
    LET s1 == [s EXCEPT !.nodes[parent].childrenMap = MapDelete(@, s.nodes[node].key),
                        !.nodes[parent].children =
                            RemoveAt(@, IndexOf(@, node)) \o <<node>>]
        s2 == [s1 EXCEPT !.nodes[node].key = newName]
    IN  [s2 EXCEPT !.nodes[parent].childrenMap = MapSet(@, newName, node)]

\* rn that leaves the entry of the old name in the name index.
rn_update_KeepsOldEntry(s, node, parent, newName) ==
    [s EXCEPT !.nodes[node].key = newName,
              !.nodes[parent].childrenMap = MapSet(@, newName, node)]

\* The map updates of rn (vfs.js:410-412) on `node` with parent `parent`
rn_update(s, node, parent, newName) ==
    LET s1 == [s EXCEPT !.nodes[parent].childrenMap = MapDelete(@, s.nodes[node].key)]
        s2 == [s1 EXCEPT !.nodes[node].key = newName]
    IN  [s2 EXCEPT !.nodes[parent].childrenMap = MapSet(@, newName, node)]

\* rn from the resolved node on (vfs.js:401-414), r being the outcome of
\* _resolve_path.
rn_resolved(r, oldPath, newName) ==
    IF r.res # "ok" THEN [st |-> r.st, res |-> r.res]
    ELSE IF r.node = r.st.root THEN [st |-> r.st, res |-> "CannotModifyRoot"]
    ELSE IF r.node = NULL THEN [st |-> r.st, res |-> "TypeError"]
    ELSE IF r.st.nodes[r.node].parent = NULL THEN [st |-> r.st, res |-> "TypeError"]
    ELSE IF hasChild(r.st, r.st.nodes[r.node].parent, newName)
    THEN [st |-> r.st, res |-> "DuplicateName"]
    ELSE [st |-> _invalidatePathCache(
                    rn_update(r.st, r.node, r.st.nodes[r.node].parent, newName), oldPath),
          res |-> "ok"]

\* VirtualFileSystem.rn(oldPath, newName)
rn(s, oldPath, newName) ==
    IF oldPath = EmptyStr \/ newName = "" THEN [st |-> s, res |-> "InvalidArgument"]
    ELSE rn_resolved(_resolve_path(s, oldPath), oldPath, newName)

\* TreeNode.clone(true): the state afterwards, the outcome and the clone.
RECURSIVE clone(_, _)
RECURSIVE CloneChildren(_, _, _, _)
\* The `for (const child of this.children)` loop of clone
CloneChildren(s, children, cloned, i) ==
    IF i > Len(children) THEN [st |-> s, res |-> "ok", node |-> cloned]
    ELSE LET rc == clone(s, children[i])
             ri == TreeNode_insert(rc.st, cloned, rc.node)
         IN  IF rc.res # "ok" THEN rc
             ELSE IF ri.res # "ok" THEN [st |-> ri.st, res |-> ri.res, node |-> NULL]
             ELSE CloneChildren(ri.st, children, cloned, i + 1)

\* TreeNode.clone that copies the node without its children.
clone_Shallow(s, this) ==
    IF FreeIds(s) = {} THEN [st |-> s, res |-> "OutOfBounds", node |-> NULL]
    ELSE LET cloned == NextId(s)
             n == s.nodes[this]
         IN  CloneChildren([s EXCEPT !.nodes[cloned] =
                                [TreeNode(n.key, n.type, n.contents, n.size) EXCEPT !.extra = n.extra]],
                           <<>>, cloned, 1)

\* TreeNode.clone(deep = true)
clone(s, this) ==
    IF FreeIds(s) = {} THEN [st |-> s, res |-> "OutOfBounds", node |-> NULL]
    ELSE LET cloned == NextId(s)
             n == s.nodes[this]
         IN  CloneChildren([s EXCEPT !.nodes[cloned] =
                                [TreeNode(n.key, n.type, n.contents, n.size) EXCEPT !.extra = n.extra]],
                           n.children, cloned, 1)

\* VirtualFileSystem._updateNodeMetadata(node) on a subtree where the
\* recursion ends: the node and its descendants get the uid, date, user and
\* group of the call, which the property `modified` stands for.
RECURSIVE _updateNodeMetadata(_, _)
RECURSIVE UpdateChildren(_, _, _)
\* The `for (const child of node.children)` loop of _updateNodeMetadata
UpdateChildren(s, children, i) ==
    IF i > Len(children) THEN s
    ELSE UpdateChildren(_updateNodeMetadata(s, children[i]), children, i + 1)

_updateNodeMetadata(s, node) ==
    UpdateChildren([s EXCEPT !.nodes[node].extra = MapSet(@, "modified", 1)],
                   s.nodes[node].children, 1)

\* cp that inserts the source node itself and no copy of it.
cp_cloned_InsertsSource(s, c, sourceNode, destNode) ==
    [st |-> TreeNode_insert(s, destNode, sourceNode).st,
     res |-> TreeNode_insert(s, destNode, sourceNode).res,
     src |-> sourceNode, dst |-> destNode,
     node |-> IF TreeNode_insert(s, destNode, sourceNode).res = "ok" THEN sourceNode ELSE NULL]

\* `destNode.insert(copyNode)` of cp (vfs.js:440-445), c being the outcome of
\* sourceNode.clone(true) in state s.
cp_cloned(s, c, sourceNode, destNode) ==
    IF c.res = "OutOfBounds"
    THEN \* the clone is garbage when the insert throws: no bound applies
         [st |-> s,
          res |-> IF TreeNode_insert(s, destNode, sourceNode).res = "ok"
                  THEN "OutOfBounds" ELSE TreeNode_insert(s, destNode, sourceNode).res,
          src |-> sourceNode, dst |-> destNode, node |-> NULL]
    ELSE IF c.res # "ok"
    THEN [st |-> s, res |-> c.res, src |-> sourceNode, dst |-> destNode, node |-> NULL]
    ELSE IF TreeNode_insert(c.st, destNode, c.node).res # "ok"
    THEN [st |-> s, res |-> TreeNode_insert(c.st, destNode, c.node).res,
          src |-> sourceNode, dst |-> destNode, node |-> NULL]
    ELSE [st |-> _updateNodeMetadata(TreeNode_insert(c.st, destNode, c.node).st, c.node),
          res |-> "ok", src |-> sourceNode, dst |-> destNode, node |-> c.node]

\* cp from the two nodes on (vfs.js:435-445)
cp_nodes(s, sourceNode, destNode) ==
    IF destNode = NULL
    THEN [st |-> s, res |-> "TypeError", src |-> sourceNode, dst |-> destNode, node |-> NULL]
    ELSE IF s.nodes[destNode].type # "dir"
    THEN [st |-> s, res |-> "NotADirectory", src |-> sourceNode, dst |-> destNode,
          node |-> NULL]
    ELSE IF sourceNode = NULL
    THEN [st |-> s, res |-> "TypeError", src |-> sourceNode, dst |-> destNode, node |-> NULL]
    ELSE IF RecursionOverflows(s, sourceNode)
    THEN [st |-> s, res |-> "RangeError", src |-> sourceNode, dst |-> destNode, node |-> NULL]
    ELSE cp_cloned(s, clone(s, sourceNode), sourceNode, destNode)

\* cp from the resolution of the destination on (vfs.js:433-445)
cp_destination(sourceNode, r2) ==
    IF r2.res # "ok"
    THEN [st |-> r2.st, res |-> r2.res, src |-> sourceNode, dst |-> NULL, node |-> NULL]
    ELSE cp_nodes(r2.st, sourceNode, r2.node)

\* cp from the resolution of the source on (vfs.js:432-445)
cp_source(r1, destination) ==
    IF r1.res # "ok"
    THEN [st |-> r1.st, res |-> r1.res, src |-> NULL, dst |-> NULL, node |-> NULL]
    ELSE cp_destination(r1.node, _resolve_path(r1.st, destination))

\* VirtualFileSystem.cp(source, destination) with paths
cp(s, source, destination) ==
    IF source = EmptyStr \/ destination = EmptyStr
    THEN [st |-> s, res |-> "InvalidArgument", src |-> NULL, dst |-> NULL, node |-> NULL]
    ELSE cp_source(_resolve_path(s, source), destination)

\* `destNode.insert(sourceNode)` of mv (vfs.js:480-482), ins being its outcome
mv_inserted(ins, sourceNode, destNode) ==
    [st |-> ins.st, res |-> ins.res, src |-> sourceNode, dst |-> destNode]

\* mv from the cycle check on (vfs.js:470-482), anc being the outcome of
\* sourceNode.isAncestorOf(destNode)
mv_checked(s, anc, sourceNode, destNode) ==
    IF anc = "true"
    THEN [st |-> s, res |-> "CyclicMove", src |-> sourceNode, dst |-> destNode]
    ELSE IF anc = "hang"
    THEN [st |-> s, res |-> "hang", src |-> sourceNode, dst |-> destNode]
    ELSE IF s.nodes[sourceNode].parent # NULL
    THEN mv_inserted(TreeNode_insert(
                         TreeNode_delete(s, s.nodes[sourceNode].parent, sourceNode),
                         destNode, sourceNode),
                     sourceNode, destNode)
    ELSE mv_inserted(TreeNode_insert(s, destNode, sourceNode), sourceNode, destNode)

\* mv from the two nodes on (vfs.js:466-482)
mv_nodes(s, sourceNode, destNode) ==
    IF destNode = NULL
    THEN [st |-> s, res |-> "TypeError", src |-> sourceNode, dst |-> destNode]
    ELSE IF s.nodes[destNode].type # "dir"
    THEN [st |-> s, res |-> "NotADirectory", src |-> sourceNode, dst |-> destNode]
    ELSE IF sourceNode = NULL
    THEN [st |-> s, res |-> "TypeError", src |-> sourceNode, dst |-> destNode]
    ELSE mv_checked(s, isAncestorOf(s, sourceNode, destNode), sourceNode, destNode)

\* mv from the resolution of the destination on (vfs.js:464-482)
mv_destination(sourceNode, r2) ==
    IF r2.res # "ok"
    THEN [st |-> r2.st, res |-> r2.res, src |-> sourceNode, dst |-> NULL]
    ELSE mv_nodes(r2.st, sourceNode, r2.node)

\* mv from the resolution of the source on (vfs.js:463-482)
mv_source(r1, destination) ==
    IF r1.res # "ok" THEN [st |-> r1.st, res |-> r1.res, src |-> NULL, dst |-> NULL]
    ELSE mv_destination(r1.node, _resolve_path(r1.st, destination))

\* VirtualFileSystem.mv(source, destination) with paths
mv(s, source, destination) ==
    IF source = EmptyStr \/ destination = EmptyStr
    THEN [st |-> s, res |-> "InvalidArgument", src |-> NULL, dst |-> NULL]
    ELSE mv_source(_resolve_path(s, source), destination)

\* The order of the characters of the keys under String.localeCompare:
\* punctuation before letters.
Collation == <<".", "~", "a", "b">>

\* The comparison of two character lists under Collation: negative, zero or
\* positive.
RECURSIVE CompareChars(_, _)
CompareChars(a, b) ==
    IF a = <<>> /\ b = <<>> THEN 0
    ELSE IF a = <<>> THEN -1
    ELSE IF b = <<>> THEN 1
    ELSE IF Head(a) # Head(b) THEN IndexOf(Collation, Head(a)) - IndexOf(Collation, Head(b))
    ELSE CompareChars(Tail(a), Tail(b))

\* a.localeCompare(b) on keys
localeCompare(a, b) == CompareChars(Chars(a), Chars(b))

\* Array.prototype.sort((a, b) => a.key.localeCompare(b.key)), which is
\* stable: x goes behind the last element that is not after it.
RECURSIVE SortInsert(_, _, _)
SortInsert(s, sorted, x) ==
    IF sorted = <<>> THEN <<x>>
    ELSE IF localeCompare(s.nodes[sorted[Len(sorted)]].key, s.nodes[x].key) <= 0
    THEN Append(sorted, x)
    ELSE Append(SortInsert(s, SubSeq(sorted, 1, Len(sorted) - 1), x), sorted[Len(sorted)])

RECURSIVE SortByKey(_, _)
SortByKey(s, q) ==
    IF q = <<>> THEN <<>>
    ELSE SortInsert(s, SortByKey(s, SubSeq(q, 1, Len(q) - 1)), q[Len(q)])

\* child.key.startsWith('.')
IsHidden(key) == Chars(key) # <<>> /\ Head(Chars(key)) = "."

\* The filters of ls without the test for hidden names.
ls_filter_ShowsHidden(s, children, options) ==
    SelectSeq(children,
              LAMBDA child : /\ options.filesOnly => s.nodes[child].type = "file"
                             /\ options.dirsOnly => s.nodes[child].type = "dir")

\* The filters of ls (vfs.js:502-512)
ls_filter(s, children, options) ==
    SelectSeq(children,
              LAMBDA child : /\ ~options.all => ~IsHidden(s.nodes[child].key)
                             /\ options.filesOnly => s.nodes[child].type = "file"
                             /\ options.dirsOnly => s.nodes[child].type = "dir")

\* The listing of ls for the directory `node` (vfs.js:500-519)
ls_listing(s, node, options) ==
    IF options.sort THEN SortByKey(s, ls_filter(s, s.nodes[node].children, options))
    ELSE ls_filter(s, s.nodes[node].children, options)

\* ls once the path is resolved, r being the outcome of the resolution
ls_resolved(r, options) ==
    IF r.res # "ok" THEN [st |-> r.st, res |-> r.res, node |-> NULL, out |-> <<>>]
    ELSE IF r.node = NULL THEN [st |-> r.st, res |-> "TypeError", node |-> NULL, out |-> <<>>]
    ELSE IF r.st.nodes[r.node].type # "dir"
    THEN [st |-> r.st, res |-> "NotADirectory", node |-> r.node, out |-> <<>>]
    ELSE [st |-> r.st, res |-> "ok", node |-> r.node,
          out |-> ls_listing(r.st, r.node, options)]

\* VirtualFileSystem.ls(path, options): the directory resolved and the
\* listing returned
ls(s, path, options) ==
    ls_resolved(IF path # EmptyStr THEN _resolve_path(s, path)
                ELSE [st |-> s, res |-> "ok", node |-> s.cwd, partial |-> <<>>],
                options)

\* ------------------------------------------------------------------- search
\* The line terminators of JavaScript regular expressions, which `.` does not
\* match.
LineTerminators == {"\n", "\r"}

\* new RegExp(source) throws SyntaxError: of the characters of the patterns
\* of the model, `(` opens a group that is never closed.
RegexSyntaxError(p) == "(" \in SeqToSet(p) /\ ")" \notin SeqToSet(p)

\* new RegExp("^" + pattern.replace(/\./g, "\\.").replace(/\*/g, ".*") + "$")
\* .test(key), on the characters of the pattern and of the key: `*` stands
\* for `.*`, `.` for itself, a character followed by `?` may be absent,
\* every other character of the patterns of the model stands for itself.
RECURSIVE RegexTest(_, _)
RegexTest(p, k) ==
    IF p = <<>> THEN k = <<>>
    ELSE IF Head(p) = "*"
    THEN \/ RegexTest(Tail(p), k)
         \/ k # <<>> /\ Head(k) \notin LineTerminators /\ RegexTest(p, Tail(k))
    ELSE IF Len(p) >= 2 /\ p[2] = "?"
    THEN \/ RegexTest(Tail(Tail(p)), k)
         \/ k # <<>> /\ Head(k) = Head(p) /\ RegexTest(Tail(Tail(p)), Tail(k))
    ELSE k # <<>> /\ Head(k) = Head(p) /\ RegexTest(Tail(p), Tail(k))

\* The pattern is searched for with a regular expression (tree.js:100)
UsesRegex(pattern) ==
    "*" \in SeqToSet(Chars(pattern)) \/ "." \in SeqToSet(Chars(pattern))

\* The test of TreeNode.search on one key (tree.js:100-110): equality for a
\* pattern without '*' and '.', the regular expression otherwise.
Matches(key, pattern) ==
    IF ~UsesRegex(pattern) THEN key = pattern
    ELSE RegexTest(Chars(pattern), Chars(key))

\* TreeNode.search(pattern) on a subtree where the recursion ends: the
\* matching nodes, this node first, then the results of its children in order.
RECURSIVE search(_, _, _)
RECURSIVE SearchChildren(_, _, _, _)
\* The `for (const child of this.children)` loop of search
SearchChildren(s, children, pattern, i) ==
    IF i > Len(children) THEN <<>>
    ELSE search(s, children[i], pattern) \o SearchChildren(s, children, pattern, i + 1)

search(s, this, pattern) ==
    (IF Matches(s.nodes[this].key, pattern) THEN <<this>> ELSE <<>>)
        \o SearchChildren(s, s.nodes[this].children, pattern, 1)

\* TreeStructure.search(key): null is the empty list to whereis
TreeStructure_search(s, key) ==
    IF key = "" \/ s.root = NULL THEN [res |-> "ok", out |-> <<>>]
    ELSE IF UsesRegex(key) /\ RegexSyntaxError(Chars(key))
    THEN [res |-> "SyntaxError", out |-> <<>>]
    ELSE IF RecursionOverflows(s, s.root) THEN [res |-> "RangeError", out |-> <<>>]
    ELSE [res |-> "ok", out |-> search(s, s.root, key)]

\* VirtualFileSystem.whereis(query)
whereis(s, query) ==
    IF query = "" THEN [st |-> s, res |-> "InvalidArgument", out |-> <<>>]
    ELSE [st |-> s, res |-> TreeStructure_search(s, query).res,
          out |-> TreeStructure_search(s, query).out]

\* ----------------------------------------------------------- export, import
\* new VirtualFileSystem()
Constructed ==
    [nodes |-> [i \in NodeIds |-> FreeNode], root |-> NULL, cwd |-> NULL, cache |-> <<>>]

\* A JSON node: key, the properties type, contents and size, every other
\* field (extra, a map from field names to values) and the children array,
\* <<>> when the field is absent.
Json(key, type, contents, size, extra, children) ==
    [key |-> key, type |-> type, contents |-> contents, size |-> size,
     extra |-> extra, children |-> children]

\* JSON null
NullJson == [type |-> "null"]

\* TreeNode.toJSON(true): key, every own property but the links, and the
\* children when there are any.
RECURSIVE TreeNode_toJSON(_, _)
TreeNode_toJSON(s, this) ==
    Json(s.nodes[this].key, s.nodes[this].type, s.nodes[this].contents,
         s.nodes[this].size, s.nodes[this].extra,
         [i \in 1..Len(s.nodes[this].children) |->
             TreeNode_toJSON(s, s.nodes[this].children[i])])

\* TreeStructure.toJSON(): the outcome and the record.  The recursion of
\* TreeNode.toJSON never ends on a node that is its own descendant.
TreeStructure_toJSON(s) ==
    IF s.root = NULL THEN [res |-> "ok", out |-> NullJson]
    ELSE IF RecursionOverflows(s, s.root) THEN [res |-> "RangeError", out |-> NullJson]
    ELSE [res |-> "ok", out |-> TreeNode_toJSON(s, s.root)]

\* VirtualFileSystem.toJSON()
toJSON(s) ==
    [st |-> s, res |-> TreeStructure_toJSON(s).res, out |-> TreeStructure_toJSON(s).out]

\* Object.assign(this, properties) at the end of the TreeNode constructor,
\* for the fields of properties other than type, contents and size: a field
\* named parent replaces the parent link set just before, any other field
\* becomes an own property of the node.
ObjectAssign(node, extra) ==
    [node EXCEPT !.parent = IF "parent" \in DOMAIN extra THEN extra["parent"] ELSE @,
                 !.extra = [k \in (DOMAIN extra) \ {"parent"} |-> extra[k]]]

\* TreeStructure.insert(key, parent, properties) as fromJSON calls it, with
\* the rest of the record as properties.
TreeStructure_insert_properties(s, nodeData, parent) ==
    IF nodeData.key = "" THEN [st |-> s, res |-> "InvalidArgument", node |-> NULL]
    ELSE IF FreeIds(s) = {} THEN [st |-> s, res |-> "OutOfBounds", node |-> NULL]
    ELSE LET node == NextId(s)
             s1 == [s EXCEPT !.nodes[node] =
                        ObjectAssign(TreeNode(nodeData.key, nodeData.type,
                                              nodeData.contents, nodeData.size),
                                     nodeData.extra)]
         IN  IF parent = NULL /\ s.root = NULL
             THEN [st |-> [s1 EXCEPT !.root = node], res |-> "ok", node |-> node]
             ELSE IF parent = NULL
             THEN [st |-> s, res |-> "RootExists", node |-> NULL]
             ELSE IF TreeNode_insert(s1, parent, node).res = "ok"
             THEN [st |-> TreeNode_insert(s1, parent, node).st, res |-> "ok", node |-> node]
             ELSE [st |-> s, res |-> TreeNode_insert(s1, parent, node).res, node |-> NULL]

RECURSIVE insertNode(_, _, _)
RECURSIVE InsertChildren(_, _, _, _)
\* The `for (const childData of children)` loop of insertNode
InsertChildren(s, children, node, i) ==
    IF i > Len(children) THEN [st |-> s, res |-> "ok", node |-> node]
    ELSE LET r == insertNode(s, children[i], node)
         IN  IF r.res # "ok" THEN r ELSE InsertChildren(r.st, children, node, i + 1)

\* insertNode(nodeData, parent) of TreeStructure.fromJSON
insertNode(s, nodeData, parent) ==
    LET r == TreeStructure_insert_properties(s, nodeData, parent)
    IN  IF r.res # "ok" THEN r ELSE InsertChildren(r.st, nodeData.children, r.node, 1)

\* TreeStructure.fromJSON(json): the new tree, built from new nodes.
TreeStructure_fromJSON(json) ==
    IF json = NullJson THEN [st |-> Constructed, res |-> "ok", node |-> NULL]
    ELSE insertNode(Constructed, json, NULL)

\* VirtualFileSystem.fromJSON(json): the tree is replaced by the imported
\* one, the current directory is its root, the cache is empty; nothing
\* changes when the import throws.
fromJSON_imported(s, t) ==
    IF t.res = "ok"
    THEN [st |-> [t.st EXCEPT !.cwd = t.st.root, !.cache = <<>>], res |-> "ok"]
    ELSE [st |-> s, res |-> t.res]

fromJSON(s, json) == fromJSON_imported(s, TreeStructure_fromJSON(json))

\* ------------------------------------------------------ traversal, statistics
\* array.reverse()
Reverse(q) == [i \in 1..Len(q) |-> q[Len(q) + 1 - i]]

\* The while loop of getDepth from `current`: the number of nodes on the
\* parent chain, -1 when the loop never ends.
RECURSIVE DepthLoop(_, _, _)
DepthLoop(s, current, fuel) ==
    IF current = NULL THEN 0
    ELSE IF fuel = 0 THEN -1
    ELSE IF DepthLoop(s, s.nodes[current].parent, fuel - 1) = -1 THEN -1
    ELSE DepthLoop(s, s.nodes[current].parent, fuel - 1) + 1

\* TreeNode.getDepth()
getDepth(s, this) ==
    IF DepthLoop(s, s.nodes[this].parent, MaxNodes) = -1
    THEN [res |-> "hang", out |-> 0]
    ELSE [res |-> "ok", out |-> DepthLoop(s, s.nodes[this].parent, MaxNodes)]

\* The while loop of traverseDFS: the nodes the callback is called with.
RECURSIVE DFSLoop(_, _)
DFSLoop(s, stack) ==
    IF stack = <<>> THEN <<>>
    ELSE <<stack[Len(stack)]>> \o
         DFSLoop(s, SubSeq(stack, 1, Len(stack) - 1)
                        \o Reverse(s.nodes[stack[Len(stack)]].children))

\* The while loop of traverseBFS: the nodes the callback is called with.
RECURSIVE BFSLoop(_, _)
BFSLoop(s, queue) ==
    IF queue = <<>> THEN <<>>
    ELSE <<Head(queue)>> \o BFSLoop(s, Tail(queue) \o s.nodes[Head(queue)].children)

\* TreeStructure.traverseDFS(callback): the stack never empties when a node
\* of the tree is its own descendant.
traverseDFS(s) ==
    IF s.root = NULL THEN [res |-> "ok", out |-> <<>>]
    ELSE IF RecursionOverflows(s, s.root) THEN [res |-> "hang", out |-> <<>>]
    ELSE [res |-> "ok", out |-> DFSLoop(s, <<s.root>>)]

\* TreeStructure.traverseBFS(callback)
traverseBFS(s) ==
    IF s.root = NULL THEN [res |-> "ok", out |-> <<>>]
    ELSE IF RecursionOverflows(s, s.root) THEN [res |-> "hang", out |-> <<>>]
    ELSE [res |-> "ok", out |-> BFSLoop(s, <<s.root>>)]

\* Math.max over the depths of the nodes of q, from 0
MaxDepth(s, q) ==
    IF q = <<>> THEN 0
    ELSE CHOOSE d \in {getDepth(s, q[i]).out : i \in 1..Len(q)} \cup {0} :
            \A i \in 1..Len(q) : getDepth(s, q[i]).out <= d

\* The callback of TreeStructure.getStats over the nodes visited
TreeStructure_getStats_visited(s, q) ==
    IF \E i \in 1..Len(q) : getDepth(s, q[i]).res = "hang"
    THEN [res |-> "hang", nodeCount |-> 0, maxDepth |-> 0, leafCount |-> 0]
    ELSE [res |-> "ok",
          nodeCount |-> Len(q),
          maxDepth |-> MaxDepth(s, q),
          leafCount |-> Len(SelectSeq(q, LAMBDA n : s.nodes[n].children = <<>>))]

\* TreeStructure.getStats()
TreeStructure_getStats(s) ==
    IF traverseDFS(s).res = "hang"
    THEN [res |-> "hang", nodeCount |-> 0, maxDepth |-> 0, leafCount |-> 0]
    ELSE TreeStructure_getStats_visited(s, traverseDFS(s).out)

\* totalSize of getStats: the sum of the sizes of the files of q[i..]
RECURSIVE TotalSize(_, _, _)
TotalSize(s, q, i) ==
    IF i > Len(q) THEN 0
    ELSE (IF s.nodes[q[i]].type = "file" THEN s.nodes[q[i]].size ELSE 0)
         + TotalSize(s, q, i + 1)

\* VirtualFileSystem.getStats(): the tree's statistics, then a second
\* traversal for the totals.
getStats_totals(s, stats, q) ==
    [st |-> s, res |-> stats.res,
     out |-> [nodeCount |-> stats.nodeCount, maxDepth |-> stats.maxDepth,
              leafCount |-> stats.leafCount,
              totalSize |-> TotalSize(s, q, 1),
              fileCount |-> Len(SelectSeq(q, LAMBDA n : s.nodes[n].type = "file")),
              dirCount |-> Len(SelectSeq(q, LAMBDA n : s.nodes[n].type = "dir")),
              cacheSize |-> Len(s.cache)]]

getStats(s) == getStats_totals(s, TreeStructure_getStats(s), traverseDFS(s).out)

\* ------------------------------------------------- TreeStructure.delete(any)
\* The `for (const target of targets)` loop of TreeStructure.delete from
\* targets[i]: the state afterwards and deletedCount.
RECURSIVE DeleteLoop(_, _, _, _)
DeleteLoop(s, targets, i, deletedCount) ==
    IF i > Len(targets) THEN [st |-> s, deletedCount |-> deletedCount]
    ELSE IF targets[i] = s.root
    THEN DeleteLoop([s EXCEPT !.root = NULL], targets, i + 1, deletedCount + 1)
    ELSE IF s.nodes[targets[i]].parent # NULL
    THEN DeleteLoop(TreeNode_delete(s, s.nodes[targets[i]].parent, targets[i]),
                    targets, i + 1, deletedCount + 1)
    ELSE DeleteLoop(s, targets, i + 1, deletedCount)

\* TreeStructure.delete after the targets are known: the state afterwards,
\* the outcome and the value returned, `deletedCount > 0`.
TreeStructure_delete_targets(s, targets) ==
    IF targets = <<>>
    THEN [st |-> s, res |-> "NotFound", out |-> [type |-> "undefined"]]
    ELSE [st |-> DeleteLoop(s, targets, 1, 0).st, res |-> "ok",
          out |-> [type |-> "boolean",
                   value |-> DeleteLoop(s, targets, 1, 0).deletedCount > 0]]

\* TreeStructure.delete(node) with a TreeNode, and the value returned
TreeStructure_delete_node(s, node) ==
    IF node = NULL THEN [st |-> s, res |-> "InvalidArgument", out |-> [type |-> "undefined"]]
    ELSE TreeStructure_delete_targets(s, <<node>>)

\* TreeStructure.delete(key) with a string, and the value returned
TreeStructure_delete_key(s, key) ==
    IF key = "" THEN [st |-> s, res |-> "InvalidArgument", out |-> [type |-> "undefined"]]
    ELSE IF TreeStructure_search(s, key).res # "ok"
    THEN [st |-> s, res |-> TreeStructure_search(s, key).res, out |-> [type |-> "undefined"]]
    ELSE TreeStructure_delete_targets(s, TreeStructure_search(s, key).out)

\* ----------------------------------------------------------- SessionManager
\* The sessions of the model and their prompts (python.js:9, the editor's
\* prompt of part_002:12).
Sessions == {"python", "editor"}
SessionPrompt == [python |-> ">>> ", editor |-> ":"]

\* null where a session or a prompt is expected
NoSession == "null"

\* The session manager and the terminal's prompt as push and pop see them.
Sm == [sessionStack |-> sessionStack, onEnterCalls |-> onEnterCalls,
       onExitCalls |-> onExitCalls, ps1_backup |-> ps1_backup, promptPS1 |-> promptPS1]

\* SessionManager.getCurrent()
getCurrent(m) ==
    IF Len(m.sessionStack) > 0 THEN m.sessionStack[Len(m.sessionStack)] ELSE NoSession

\* SessionManager.isActive()
isActive(m) == Len(m.sessionStack) > 0

\* TerminalEmulator._constructPrompt(): the prompt of the current session,
\* the default prompt without one.
_constructPrompt(m) ==
    IF getCurrent(m) # NoSession THEN SessionPrompt[getCurrent(m)] ELSE "PS1"

\* TerminalEmulator.setPrompt(ps): the manager and prompt afterwards
setPrompt(m, ps) ==
    [m EXCEPT !.promptPS1 = IF ps = "" \/ ps = NoSession THEN _constructPrompt(m) ELSE ps]

\* SessionManager.push(session)
SessionManager_push(m, session) ==
    setPrompt([m EXCEPT !.sessionStack = Append(@, session),
                        !.onEnterCalls[session] = @ + 1,
                        !.ps1_backup = m.promptPS1],
              SessionPrompt[session])

\* SessionManager.pop that removes the oldest session of the stack.
SessionManager_pop_Oldest(m) ==
    IF m.sessionStack = <<>>
    THEN [setPrompt(m, m.ps1_backup) EXCEPT !.ps1_backup = NoSession]
    ELSE [setPrompt([m EXCEPT !.sessionStack = Tail(@),
                              !.onExitCalls[Head(m.sessionStack)] = @ + 1],
                    m.ps1_backup)
          EXCEPT !.ps1_backup = NoSession]

\* SessionManager.pop()
SessionManager_pop(m) ==
    IF m.sessionStack = <<>>
    THEN [setPrompt(m, m.ps1_backup) EXCEPT !.ps1_backup = NoSession]
    ELSE [setPrompt([m EXCEPT !.sessionStack = SubSeq(@, 1, Len(@) - 1),
                              !.onExitCalls[getCurrent(m)] = @ + 1],
                    m.ps1_backup)
          EXCEPT !.ps1_backup = NoSession]

\* TerminalEmulator.popSession(): pop, then the prompt is built again
popSession(m) == setPrompt(SessionManager_pop(m), "")

\* ------------------------------------------------------------------ inputs
\* The path strings the operations are called with.
Paths ==
    { Slash, <<"", "a">>, <<"", "b">>, <<"", "a", "b">>, <<"a">>, <<"b">>, <<"..">>,
      <<"..", "b">>, <<"", "a", "">> }

\* The names rename is called with.
Names == {"a", "b"}

\* The contents written.
Contents == { <<"h">> }

\* The patterns searched for.
Patterns == {"*", "a", "b", "..", "~"}

\* Patterns with characters that are operators of regular expressions.
RegexPatterns == {"a?*", "(*"}

\* The options ls is called with.
Options == [all : BOOLEAN, filesOnly : BOOLEAN, dirsOnly : BOOLEAN, sort : BOOLEAN]

\* The records fromJSON is called with, besides those toJSON returns: one
\* with a field that is none of the node properties.
ImportRecords ==
    { Json("~", "dir", NullContents, 0, "color" :> 1,
           <<Json("b", "file", <<"h">>, 1, EmptyMap, <<>>)>>) }

\* The records initStructure is called with.
File(key, contents) == [key |-> key, type |-> "file", contents |-> contents]
Dir(key, children) == [key |-> key, type |-> "dir", children |-> children]
Records ==
    { Dir("~", <<>>),
      Dir("~", <<Dir("a", <<>>), File("b", <<"h">>)>>),
      Dir("~", <<Dir("a", <<>>), File("a", <<"h">>)>>) }

\* ------------------------------------------------------------ state machine
\* The file system as the operations see it.
St == [nodes |-> nodes, root |-> root, cwd |-> cwd, cache |-> pathCache]

\* The node a path resolves to in s, NULL when it does not.
Resolved(s, path) ==
    LET r == _resolve_path(s, path) IN IF r.res = "ok" THEN r.node ELSE NULL

\* A call can be made: no earlier call is still running (one that never
\* returns), and the number of calls is within the bound.
Callable == ~halted /\ calls < MaxCalls

\* One call runs to completion: the state it leaves, garbage collected.  A
\* call that would exceed the bounds of the model is not made; after a call
\* that never returns nothing happens any more.
Step(r) ==
    /\ r.res # "OutOfBounds"
    /\ calls' = calls + 1
    /\ LET c == Collect(r.st)
       IN  /\ nodes' = c.nodes
           /\ root' = c.root
           /\ cwd' = c.cwd
           /\ pathCache' = c.cache
    /\ halted' = (r.res = "hang")
    /\ UNCHANGED sessionVars

\* new SessionManager() in a terminal showing its default prompt: no
\* session, no call of onEnter or onExit yet.
SessionsConstructed ==
    /\ sessionStack = <<>>
    /\ onEnterCalls = [x \in Sessions |-> 0]
    /\ onExitCalls = [x \in Sessions |-> 0]
    /\ ps1_backup = NoSession
    /\ promptPS1 = "PS1"
    /\ sessionLog = <<>>

\* The file system as constructed, or as the terminal sets it up on start:
\* constructed and filled from a record by initStructure(record, null).
Init ==
    /\ \E s \in {Constructed} \cup
                {initStructure(Constructed, record, NULL).st :
                    record \in {x \in Records : initStructure(Constructed, x, NULL).res = "ok"}} :
          LET c == Collect(s)
          IN  /\ nodes = c.nodes
              /\ root = c.root
              /\ cwd = c.cwd
              /\ pathCache = c.cache
    /\ halted = FALSE
    /\ calls = 0
    /\ SessionsConstructed

InitStructure(record) ==
    /\ Callable
    /\ Step(initStructure(St, record, NULL))

Mkdir(path) ==
    /\ Callable
    /\ Step(mkdir(St, path))

Rmdir(path) ==
    /\ Callable
    /\ Step(rmdir(St, path))

Cd(path) ==
    /\ Callable
    /\ Step(cd(St, path))

Read(path) ==
    /\ Callable
    /\ Step(cat(St, "", path, <<>>))

Write(mode, path, contents) ==
    /\ Callable
    /\ Step(cat(St, mode, path, contents))

Rm(path) ==
    /\ Callable
    /\ Step(rm(St, path))

Rn(oldPath, newName) ==
    /\ Callable
    /\ Step(rn(St, oldPath, newName))

Cp(source, destination) ==
    /\ Callable
    /\ Step(cp(St, source, destination))

Mv(source, destination) ==
    /\ Callable
    /\ Step(mv(St, source, destination))

Ls(path, options) ==
    /\ Callable
    /\ Step(ls(St, path, options))

Whereis(query) ==
    /\ Callable
    /\ Step(whereis(St, query))

ToJSON ==
    /\ Callable
    /\ Step(toJSON(St))

FromJSON(json) ==
    /\ Callable
    /\ Step(fromJSON(St, json))

GetStats ==
    /\ Callable
    /\ Step(getStats(St))

Next ==
    \/ \E record \in Records : InitStructure(record)
    \/ \E path \in Paths : Mkdir(path)
    \/ \E path \in Paths : Rmdir(path)
    \/ \E path \in Paths : Cd(path)
    \/ \E path \in Paths : Read(path)
    \/ \E path \in Paths, mode \in {">", ">>"}, contents \in Contents : Write(mode, path, contents)
    \/ \E path \in Paths : Rm(path)
    \/ \E path \in Paths, name \in Names : Rn(path, name)
    \/ \E source \in Paths, destination \in Paths : Cp(source, destination)
    \/ \E source \in Paths, destination \in Paths : Mv(source, destination)
    \/ \E path \in Paths \cup {EmptyStr}, options \in Options : Ls(path, options)
    \/ \E query \in Patterns \cup RegexPatterns : Whereis(query)
    \/ GetStats
    \/ ToJSON
    \/ \E json \in ImportRecords \cup {toJSON(St).out} : FromJSON(json)

Spec == Init /\ [][Next]_vars

\* ---------------------------------------------- the session manager alone
\* One call on the session manager runs to completion; `event` is what the
\* call is recorded as.
SessionStep(m, event) ==
    /\ Len(sessionLog) < MaxSessionCalls
    /\ sessionStack' = m.sessionStack
    /\ onEnterCalls' = m.onEnterCalls
    /\ onExitCalls' = m.onExitCalls
    /\ ps1_backup' = m.ps1_backup
    /\ promptPS1' = m.promptPS1
    /\ sessionLog' = Append(sessionLog, event)
    /\ UNCHANGED vfsVars

PushSession(session) ==
    /\ SessionStep(SessionManager_push(Sm, session), session)

Pop ==
    /\ SessionStep(SessionManager_pop(Sm), "pop")

PopSession ==
    /\ SessionStep(popSession(Sm), "pop")

\* A terminal with a file system just constructed and no session.
SessionInit ==
    /\ nodes = Constructed.nodes
    /\ root = NULL
    /\ cwd = NULL
    /\ pathCache = <<>>
    /\ halted = FALSE
    /\ calls = 0
    /\ SessionsConstructed

SessionNext ==
    \/ \E session \in Sessions : PushSession(session)
    \/ Pop
    \/ PopSession

SessionSpec == SessionInit /\ [][SessionNext]_vars

\* ------------------------------------------------------------------ claims
\* The nodes of the tree: those reachable from the root through child lists.
TreeNodes(s) == IF s.root = NULL THEN {} ELSE Subtree(s, s.root)

\* The tree: its nodes with their names, kinds, payloads, parent links and
\* child orders, by identity.
TreeView(s) ==
    LET reach == TreeNodes(s)
    IN  [i \in NodeIds |-> IF i \in reach THEN s.nodes[i] ELSE FreeNode]

\* The objects in use.
Objects(s) == NodeIds \ FreeIds(s)

\* The operation returned to its caller (it may have thrown).
Returned(r) == r.res \notin {"hang", "OutOfBounds"}

\* The operation threw.
Failed(r) == r.res \notin {"ok", "hang", "OutOfBounds"}

\* The canonical form of path p and the node a walk from the root finds there.
Walk(s, path) == _resolvePathUncached(s, _normalizePath(s, path))

\* C1: in every reachable state, for every path p, the cache-assisted resolve
\* of p has the outcome of walking the canonical form of p from the root:
\* the same node, or PathNotFound both.
C1_ResolveIsWalk ==
    ~halted =>
        \A path \in Paths :
            ~NormalizeHangs(St, path) =>
                LET r == _resolve_path(St, path)
                    w == Walk(St, path)
                IN  r.res = w.res /\ r.node = w.node

\* C2: after rename(p, x) succeeds on a non-root node a reached by p, p no
\* longer resolves (PathNotFound) and the parent path of a followed by x
\* resolves to the node with a's identity.  Stated for the paths p whose
\* canonical form is the absolute path of a, the current directory not being
\* inside a.
C2_RenameMovesThePath ==
    ~halted =>
        \A path \in Paths, name \in Names :
            LET a == Walk(St, path)
                r == rn(St, path, name)
            IN  (/\ ~NormalizeHangs(St, path)
                 /\ a.res = "ok" /\ a.node # NULL /\ a.node # root
                 /\ cwd \notin Subtree(St, a.node)
                 /\ r.res = "ok")
                => /\ _resolve_path(r.st, path).res = "PathNotFound"
                   /\ LET new == _resolve_path(r.st, _absolute_path(r.st, a.node))
                      IN  new.res = "ok" /\ new.node = a.node

\* C3: after move(src, dst) succeeds on paths, dst not being the old parent of
\* the moved node, the cache holds no entry for the old canonical path of src
\* and that path no longer resolves.
C3_MoveInvalidatesOldPath ==
    ~halted =>
        \A source \in Paths, destination \in Paths :
            LET r == mv(St, source, destination)
                old == _normalizePath(St, source)
            IN  (/\ ~NormalizeHangs(St, source)
                 /\ r.res = "ok"
                 /\ r.src # root
                 /\ St.nodes[r.src].parent # r.dst)
                => /\ ~CacheHas(r.st.cache, old)
                   /\ _resolve_path(r.st, old).res = "PathNotFound"

\* The canonical path and its ancestor paths: "/a/b", "/a", "/".
CanonicalAndAncestors(canonical) ==
    {canonical} \cup {OrSlash(SubSeq(canonical, 1, i)) : i \in 1..(Len(canonical) - 1)}

\* After the successful mutation r called with `path` in state s the cache
\* holds no entry for the canonical form of path nor for an ancestor of it.
CacheClearedFor(s, path, r) ==
    (r.res = "ok" /\ ~NormalizeHangs(s, path)) =>
        CacheKeys(r.st.cache) \cap CanonicalAndAncestors(_normalizePath(s, path)) = {}

\* C4: after any successful mkdir, rmdir, rm, write or rename called with path
\* p, the cache holds no entry for the canonical form of p or an ancestor.
C4_MutationInvalidatesPath ==
    ~halted =>
        \A path \in Paths :
            /\ CacheClearedFor(St, path, mkdir(St, path))
            /\ CacheClearedFor(St, path, rmdir(St, path))
            /\ CacheClearedFor(St, path, rm(St, path))
            /\ \A mode \in {">", ">>"}, contents \in Contents :
                  CacheClearedFor(St, path, cat(St, mode, path, contents))
            /\ \A name \in Names : CacheClearedFor(St, path, rn(St, path, name))

\* move(a, d) is called on a node a and a directory d that is a proper
\* descendant of a.
MoveIntoDescendant(s, r) ==
    /\ r.src # NULL /\ r.dst # NULL
    /\ s.nodes[r.dst].type = "dir"
    /\ r.dst \in ProperDescendants(s, r.src)

\* C5: move(a, d) with d a directory below a fails with CyclicMove and leaves
\* the tree (nodes, names, parent links, child orders) and the current
\* directory as they were.
C5_CyclicMoveRejected ==
    ~halted =>
        \A source \in Paths, destination \in Paths :
            LET r == mv(St, source, destination)
            IN  MoveIntoDescendant(St, r)
                => /\ r.res = "CyclicMove"
                   /\ r.st.nodes = nodes
                   /\ r.st.root = root
                   /\ r.st.cwd = cwd

C5_Witness ==
    /\ ~halted
    /\ \E source \in Paths, destination \in Paths :
          LET r == mv(St, source, destination)
          IN  /\ MoveIntoDescendant(St, r)
              /\ r.src # r.dst
              /\ r.src # root
              /\ r.res = "CyclicMove"

\* C6: whenever move(src, dst) returns successfully the same node is a child
\* of dst reachable from the root, it is no longer a child of its old parent
\* (unless dst is that parent), every other node is unchanged and the nodes
\* reachable from the root are the ones reachable before.
C6_MoveRelinksTheNode ==
    ~halted =>
        \A source \in Paths, destination \in Paths :
            LET r == mv(St, source, destination)
                old == St.nodes[r.src].parent
            IN  r.res = "ok"
                => /\ r.src \in SeqToSet(r.st.nodes[r.dst].children)
                   /\ r.st.nodes[r.src].parent = r.dst
                   /\ r.src \in TreeNodes(r.st)
                   /\ (old # NULL /\ old # r.dst) => r.src \notin SeqToSet(r.st.nodes[old].children)
                   /\ r.st.nodes[r.src].children = St.nodes[r.src].children
                   /\ \A n \in NodeIds \ {r.src, r.dst, old} : r.st.nodes[n] = St.nodes[n]
                   /\ TreeNodes(r.st) = TreeNodes(St)

\* The failed call r made in state s left the tree and the current directory
\* as they were.
FailureChangesNothing(s, r) ==
    Failed(r) => TreeView(r.st) = TreeView(s) /\ r.st.cwd = s.cwd

\* C7: every namespace operation that fails leaves the tree (reachable nodes,
\* names, parent links, child order, payloads) and the current directory as
\* they were before the call.
C7_FailureIsAtomic ==
    ~halted =>
        /\ \A path \in Paths :
              /\ FailureChangesNothing(St, mkdir(St, path))
              /\ FailureChangesNothing(St, rmdir(St, path))
              /\ FailureChangesNothing(St, cd(St, path))
              /\ FailureChangesNothing(St, cat(St, "", path, <<>>))
              /\ FailureChangesNothing(St, rm(St, path))
              /\ \A mode \in {">", ">>"}, contents \in Contents :
                    FailureChangesNothing(St, cat(St, mode, path, contents))
              /\ \A name \in Names : FailureChangesNothing(St, rn(St, path, name))
        /\ \A source \in Paths, destination \in Paths :
              /\ FailureChangesNothing(St, cp(St, source, destination))
              /\ FailureChangesNothing(St, mv(St, source, destination))

\* The names of the children of node n, in child order.
ChildNames(s, n) == [i \in 1..Len(s.nodes[n].children) |-> s.nodes[s.nodes[n].children[i]].key]

\* No two children of one parent have the same name.
UniqueSiblingNames(s) ==
    \A n \in Objects(s) :
        \A i, j \in 1..Len(s.nodes[n].children) :
            ChildNames(s, n)[i] = ChildNames(s, n)[j] => i = j

\* rename(path, name) on a non-root node that has a sibling (or itself) called
\* `name` fails with DuplicateName.
RenameOntoSiblingFails(s, path, name) ==
    LET a == Resolved(s, path)
        parent == s.nodes[a].parent
    IN  (/\ ~NormalizeHangs(s, path)
         /\ a # NULL /\ a # s.root /\ parent # NULL
         /\ name \in SeqToSet(ChildNames(s, parent)))
        => rn(s, path, name).res = "DuplicateName"

\* The insert of copy or move, reached with the destination having another
\* child of the source's name, fails with DuplicateName.
InsertOntoSiblingFails(s, r) ==
    (/\ r.src # NULL /\ r.dst # NULL
     /\ r.res \in {"ok", "DuplicateName"}
     /\ \E c \in SeqToSet(s.nodes[r.dst].children) :
           c # r.src /\ s.nodes[c].key = s.nodes[r.src].key)
    => r.res = "DuplicateName"

\* C8: in every reachable state no two children of one parent share a name,
\* and an insert or rename that would create a duplicate fails with
\* DuplicateName.
C8_SiblingNamesUnique ==
    /\ UniqueSiblingNames(St)
    /\ ~halted =>
          /\ \A path \in Paths, name \in Names : RenameOntoSiblingFails(St, path, name)
          /\ \A source \in Paths, destination \in Paths :
                /\ InsertOntoSiblingFails(St, cp(St, source, destination))
                /\ InsertOntoSiblingFails(St, mv(St, source, destination))

C8_Witness ==
    /\ ~halted
    /\ \E n \in TreeNodes(St) : Len(nodes[n].children) >= 2
    /\ \E path \in Paths, name \in Names :
          /\ Resolved(St, path) \notin {NULL, root}
          /\ nodes[Resolved(St, path)].key # name
          /\ rn(St, path, name).res = "DuplicateName"
    /\ \E source \in Paths, destination \in Paths :
          /\ mv(St, source, destination).res = "DuplicateName"
          /\ cp(St, source, destination).res = "DuplicateName"
          /\ UniqueSiblingNames(mv(St, source, destination).st)

C10_RootHasNoParent ==
    root # NULL =>
        /\ nodes[root].parent = NULL
        /\ \A n \in Objects(St) : root \notin SeqToSet(nodes[n].children)

\* C11: in every reachable state, for every path p for which cd(p) succeeds,
\* the absolute path of the current directory afterwards is the canonical form
\* of p computed against the current directory held before the call.
C11_CdReachesCanonicalPath ==
    ~halted =>
        \A path \in Paths :
            LET r == cd(St, path)
            IN  (r.res = "ok" /\ ~NormalizeHangs(St, path))
                => /\ ~AbsolutePathHangs(r.st, r.st.cwd)
                   /\ _absolute_path(r.st, r.st.cwd) = _normalizePath(St, path)

\* Path q resolves to a directory in s.
ResolvesToDirectory(s, q) ==
    LET r == _resolve_path(s, q)
    IN  r.res = "ok" /\ r.node # NULL /\ s.nodes[r.node].type = "dir"

\* A non-directory stands at the canonical form of path or at a prefix of it.
NonDirectoryOnPath(s, path) ==
    \E q \in CanonicalAndAncestors(_normalizePath(s, path)) :
        LET w == _resolvePathUncached(s, q)
        IN  w.res = "ok" /\ w.node # NULL /\ s.nodes[w.node].type # "dir"

\* C12: for every path p, '.' and '..' segments included, after mkdir(p)
\* succeeds p resolves to a directory and so does every prefix of the
\* canonical form of p; with a non-directory on a segment of p mkdir fails with
\* NotADirectory, and a mkdir that fails so has created nothing.
C12_MkdirCreatesThePath ==
    ~halted =>
        \A path \in Paths :
            LET r == mkdir(St, path)
            IN  (root # NULL /\ ~NormalizeHangs(St, path))
                => /\ r.res = "ok"
                      => \A q \in {path} \cup CanonicalAndAncestors(_normalizePath(St, path)) :
                            ResolvesToDirectory(r.st, q)
                   /\ (Returned(r) /\ NonDirectoryOnPath(St, path)) => r.res = "NotADirectory"
                   /\ r.res = "NotADirectory" => TreeView(r.st) = TreeView(St)

\* The shape of the tree: the absolute paths of its nodes with their kinds.
Shape(s) == {<<_absolute_path(s, n), s.nodes[n].type>> : n \in TreeNodes(s)}

\* C13: for every path p that does not exist (one or several trailing
\* segments of its canonical form are missing), mkdir(p) followed immediately
\* by rmdir(p) leaves the tree with the shape it had before mkdir.
C13_MkdirRmdirRestoresShape ==
    ~halted =>
        \A path \in Paths :
            LET m == mkdir(St, path)
                d == rmdir(m.st, path)
            IN  (/\ root # NULL
                 /\ ~NormalizeHangs(St, path)
                 /\ Walk(St, path).res = "PathNotFound"
                 /\ m.res = "ok"
                 /\ Returned(d))
                => Shape(d.st) = Shape(St)

\* The directory cat(path) looks the file up in, NULL when the parent path of
\* path does not resolve to a directory.
ParentDirectory(s, path) ==
    LET r == _resolve_path(s, cat_parentPath(path))
    IN  IF r.res = "ok" /\ r.node # NULL /\ s.nodes[r.node].type = "dir" THEN r.node ELSE NULL

\* The child cat(path) finds in that directory, NULL when there is none.
FileAt(s, path) == findChild(s, ParentDirectory(s, path), cat_fileName(path))

\* cat can be called with path in s on a file or a name not in use: its
\* parent resolves to a directory where the name is absent or a file.
WritableAt(s, path) ==
    /\ path # EmptyStr
    /\ ~NormalizeHangs(s, cat_parentPath(path))
    /\ ParentDirectory(s, path) # NULL
    /\ FileAt(s, path) # NULL => s.nodes[FileAt(s, path)].type = "file"

\* The contents written in the claims: the empty string too.
WrittenContents == Contents \cup {<<>>}

\* After the write w made with path, read(path) returns `expected` and the
\* file's size is the length of `expected`.
ReadsBack(w, path, expected) ==
    /\ w.res = "ok"
    /\ cat(w.st, "", path, <<>>).res = "ok"
    /\ cat(w.st, "", path, <<>>).out = expected
    /\ FileAt(w.st, path) # NULL
    /\ w.st.nodes[FileAt(w.st, path)].size = Len(expected)

\* C14: for every path p whose parent resolves to a directory and every
\* content c, a '>' write to p (a file or absent) succeeds, a read of p then
\* returns exactly c, and the file's size is the length of c.
C14_OverwriteThenRead ==
    ~halted =>
        \A path \in Paths, c \in WrittenContents :
            LET w == cat(St, ">", path, c)
            IN  (WritableAt(St, path) /\ w.res # "OutOfBounds") => ReadsBack(w, path, c)

\* The contents read(path) is to return after d was appended in s: the
\* file's contents followed by d, d alone when there was no file.
AppendedContents(s, path, d) ==
    IF FileAt(s, path) = NULL THEN d
    ELSE ContentsOrEmpty(s.nodes[FileAt(s, path)].contents) \o d

\* C15: for every file path p with contents c and every d, a '>>' write of d
\* to p succeeds, a read of p then returns c followed by d, and the file's
\* size is the length of that; appending to an absent file creates it with
\* contents d.
C15_AppendThenRead ==
    ~halted =>
        \A path \in Paths, d \in WrittenContents :
            LET w == cat(St, ">>", path, d)
            IN  (WritableAt(St, path) /\ w.res # "OutOfBounds")
                => ReadsBack(w, path, AppendedContents(St, path, d))

\* The subtree of n2 in s2 is a copy of the subtree of n1 in s1: the same
\* names, kinds, payloads and sizes, nested the same way in the same child
\* order (fuel bounds the depth).
RECURSIVE Isomorphic(_, _, _, _, _)
Isomorphic(s1, n1, s2, n2, fuel) ==
    /\ fuel > 0
    /\ s1.nodes[n1].key = s2.nodes[n2].key
    /\ s1.nodes[n1].type = s2.nodes[n2].type
    /\ s1.nodes[n1].contents = s2.nodes[n2].contents
    /\ s1.nodes[n1].size = s2.nodes[n2].size
    /\ Len(s1.nodes[n1].children) = Len(s2.nodes[n2].children)
    /\ \A i \in 1..Len(s1.nodes[n1].children) :
          /\ s2.nodes[s2.nodes[n2].children[i]].parent = n2
          /\ Isomorphic(s1, s1.nodes[n1].children[i], s2, s2.nodes[n2].children[i], fuel - 1)

\* C16: after copy(a, b) succeeds b has a new child whose subtree is
\* isomorphic to a's subtree as it was before the call, and every node of the
\* new subtree is a new object: none is a node that existed before.
C16_CopyIsIsomorphicAndFresh ==
    ~halted =>
        \A source \in Paths, destination \in Paths :
            LET r == cp(St, source, destination)
            IN  r.res = "ok"
                => /\ r.node \in SeqToSet(r.st.nodes[r.dst].children)
                   /\ r.node \notin SeqToSet(nodes[r.dst].children)
                   /\ r.st.nodes[r.node].parent = r.dst
                   /\ Isomorphic(St, r.src, r.st, r.node, MaxNodes)
                   /\ Subtree(r.st, r.node) \cap Objects(St) = {}
                   /\ Cardinality(Subtree(r.st, r.node)) = Cardinality(Subtree(St, r.src))

\* A directory with two children is copied.
C16_Witness ==
    /\ ~halted
    /\ \E source \in Paths, destination \in Paths :
          LET r == cp(St, source, destination)
          IN  /\ r.res = "ok"
              /\ Len(nodes[r.src].children) >= 2
              /\ Len(r.st.nodes[r.node].children) >= 2

\* The node rmdir(path) or rm(path) works on in s: what _resolve_path returns
\* for the path without its trailing slashes, NULL when it throws.
Target(s, path) == Resolved(s, StripTrailingSlashes(path))

\* C17: after rmdir(p) succeeds on the current directory, the current
\* directory is the removed node's former parent (the root only when that
\* parent is the root).
C17_RmdirMovesCwdToParent ==
    ~halted =>
        \A path \in Paths :
            LET r == rmdir(St, path)
                node == Target(St, path)
            IN  (/\ ~NormalizeHangs(St, StripTrailingSlashes(path))
                 /\ r.res = "ok"
                 /\ node = cwd
                 /\ nodes[node].parent # NULL)
                => r.st.cwd = nodes[node].parent

\* The call r made in s failed with `error` and removed nothing.
FailsWith(s, r, error) == r.res = error /\ TreeView(r.st) = TreeView(s)

\* The call r made in s removed node n from the tree, and nothing else.
RemovesExactly(s, r, n) ==
    /\ r.res = "ok"
    /\ TreeNodes(r.st) = TreeNodes(s) \ {n}
    /\ \A m \in TreeNodes(r.st) \ {s.nodes[n].parent} : r.st.nodes[m] = s.nodes[m]

\* C18: rmdir(p) fails, removing nothing, when p does not resolve, resolves to
\* the root (CannotModifyRoot), to a non-directory (NotADirectory) or to a
\* directory with a child (NonEmptyDirectory); in every other case it removes
\* exactly that one empty directory.
C18_RmdirFailsExactlyWhen ==
    ~halted =>
        \A path \in Paths :
            LET t == _resolve_path(St, path)
                r == rmdir(St, path)
            IN  (root # NULL /\ ~NormalizeHangs(St, path) /\ Returned(r))
                => IF t.res # "ok" THEN FailsWith(St, r, t.res)
                   ELSE IF t.node = root THEN FailsWith(St, r, "CannotModifyRoot")
                   ELSE IF nodes[t.node].type # "dir" THEN FailsWith(St, r, "NotADirectory")
                   ELSE IF Len(nodes[t.node].children) > 0
                   THEN FailsWith(St, r, "NonEmptyDirectory")
                   ELSE RemovesExactly(St, r, t.node)

\* C19: in every reachable state, whenever rm(p) returns successfully the
\* file at the canonical form of p has been detached: its former parent has
\* no child of that name, a following resolve or read of p fails, and no
\* other node has left the tree; rm on a directory fails with NotAFile.
C19_RmDetachesTheFile ==
    ~halted =>
        \A path \in Paths :
            LET f == Walk(St, path)
                t == _resolve_path(St, path)
                r == rm(St, path)
            IN  (root # NULL /\ ~NormalizeHangs(St, path))
                => /\ r.res = "ok"
                      => /\ f.res = "ok"
                         /\ f.node # NULL
                         /\ nodes[f.node].type = "file"
                         /\ ~hasChild(r.st, nodes[f.node].parent, nodes[f.node].key)
                         /\ TreeNodes(r.st) = TreeNodes(St) \ {f.node}
                         /\ _resolve_path(r.st, path).res = "PathNotFound"
                         /\ cat(r.st, "", path, <<>>).res = "PathNotFound"
                   /\ (t.res = "ok" /\ t.node # NULL /\ nodes[t.node].type = "dir" /\ Returned(r))
                      => r.res = "NotAFile"

\* What a node is apart from its name and its name index: kind, payload,
\* size, parent and ordered child list.
Visible(n) ==
    [type |-> n.type, contents |-> n.contents, size |-> n.size, parent |-> n.parent,
     children |-> n.children]

\* The call r made in s changed no object, nor the root, nor the current
\* directory.
NothingChanged(s, r) == r.st.nodes = s.nodes /\ r.st.root = s.root /\ r.st.cwd = s.cwd

\* The successful rename r of node n to name x in s changed the name of n and
\* nothing else: every object keeps its kind, payload, parent and child list,
\* every other object its name, only the parent's name index follows.
OnlyTheNameChanged(s, r, n, x) ==
    /\ r.st.root = s.root
    /\ r.st.cwd = s.cwd
    /\ \A m \in NodeIds :
          /\ Visible(r.st.nodes[m]) = Visible(s.nodes[m])
          /\ r.st.nodes[m].key = IF m = n THEN x ELSE s.nodes[m].key
          /\ m # s.nodes[n].parent => r.st.nodes[m].childrenMap = s.nodes[m].childrenMap
    /\ findChild(r.st, s.nodes[n].parent, x) = n

\* C20: rename(p, x) changes only the name of the resolved node: identity,
\* kind, payload, children, parent and place in the parent's child list stay,
\* as do every other node and the current directory; it fails without change
\* when the node is the root or a child of its parent (the node itself
\* included) has name x.
C20_RenameChangesOnlyTheName ==
    ~halted =>
        \A path \in Paths, x \in Names :
            LET t == _resolve_path(St, path)
                r == rn(St, path, x)
            IN  (~NormalizeHangs(St, path) /\ t.res = "ok" /\ t.node # NULL)
                => /\ r.res = "ok" => OnlyTheNameChanged(St, r, t.node, x)
                   /\ t.node = root => r.res = "CannotModifyRoot" /\ NothingChanged(St, r)
                   /\ (/\ t.node # root
                       /\ nodes[t.node].parent # NULL
                       /\ x \in SeqToSet(ChildNames(St, nodes[t.node].parent)))
                      => r.res = "DuplicateName" /\ NothingChanged(St, r)

\* The first of two children is renamed; renaming the root and renaming onto
\* a sibling's name are tried.
C20_Witness ==
    /\ ~halted
    /\ \E path \in Paths, x \in Names :
          LET t == _resolve_path(St, path)
          IN  /\ t.res = "ok" /\ t.node \notin {NULL, root}
              /\ nodes[t.node].parent = root
              /\ Len(nodes[root].children) >= 2
              /\ nodes[root].children[1] = t.node
              /\ rn(St, path, x).res = "ok"
    /\ \E path \in Paths, x \in Names : rn(St, path, x).res = "CannotModifyRoot"
    /\ \E path \in Paths, x \in Names : rn(St, path, x).res = "DuplicateName"

\* The children of n with the given name, by n's child list.
ChildrenNamed(s, n, name) == {c \in SeqToSet(s.nodes[n].children) : s.nodes[c].key = name}

\* The segments of the canonical path `segs` up to and including the first
\* one that names no child of the node reached so far, walking the child
\* lists from `current` at segment i.
RECURSIVE MissingPrefix(_, _, _, _)
MissingPrefix(s, segs, current, i) ==
    IF i > Len(segs) THEN segs
    ELSE IF ChildrenNamed(s, current, segs[i]) = {} THEN SubSeq(segs, 1, i)
    ELSE MissingPrefix(s, segs, CHOOSE c \in ChildrenNamed(s, current, segs[i]) : TRUE, i + 1)

\* C21: when resolve(p) fails with PathNotFound the error reports the prefix
\* of the canonical path of p up to and including the first segment that is
\* no child of the node reached so far, and the failed resolve changes
\* neither the tree, the current directory nor the cache.
C21_PathNotFoundReportsPrefix ==
    ~halted =>
        \A path \in Paths :
            LET r == _resolve_path(St, path)
            IN  (~NormalizeHangs(St, path) /\ r.res = "PathNotFound")
                => /\ r.partial = SlashPlus(MissingPrefix(St,
                                      FilterBoolean(_normalizePath(St, path)), root, 1))
                   /\ r.st = St

\* A resolve fails at a segment that is not the last one of the path, with
\* entries in the cache.
C21_Witness ==
    /\ ~halted
    /\ pathCache # <<>>
    /\ \E path \in Paths :
          LET r == _resolve_path(St, path)
          IN  /\ r.res = "PathNotFound"
              /\ Len(FilterBoolean(r.partial)) < Len(FilterBoolean(_normalizePath(St, path)))

\* resolve(path) in s is answered from the cache.
CacheHit(s, path) ==
    /\ path \notin {EmptyStr, Dot, Slash}
    /\ CacheHas(s.cache, _normalizePath(s, path))
    /\ CacheGet(s.cache, _normalizePath(s, path)) # NULL

\* resolve(path) in s looks the path up in the tree and, on success, inserts it.
CacheMiss(s, path) ==
    /\ path \notin {EmptyStr, Dot, Slash}
    /\ ~CacheHas(s.cache, _normalizePath(s, path))

\* C22: the cache never holds more than its capacity; a successful lookup
\* inserted while the cache is full evicts exactly the entry inserted earliest
\* and goes in last, one inserted while it is not full evicts nothing; a hit
\* changes neither the entries nor their order.
C22_CacheIsFifo ==
    /\ Len(pathCache) <= MaxCacheSize
    /\ ~halted =>
          \A path \in Paths :
              LET r == _resolve_path(St, path)
                  entry == [path |-> _normalizePath(St, path), node |-> r.node]
              IN  ~NormalizeHangs(St, path)
                  => /\ CacheHit(St, path) => r.res = "ok" /\ r.st.cache = pathCache
                     /\ (CacheMiss(St, path) /\ r.res = "ok")
                        => r.st.cache = IF Len(pathCache) = MaxCacheSize
                                        THEN Append(Tail(pathCache), entry)
                                        ELSE Append(pathCache, entry)

\* The cache is full; one path hits its oldest entry and another misses and
\* is inserted.
C22_Witness ==
    /\ ~halted
    /\ Len(pathCache) = MaxCacheSize
    /\ \E path \in Paths :
          CacheHit(St, path) /\ _normalizePath(St, path) = pathCache[1].path
    /\ \E path \in Paths : CacheMiss(St, path) /\ _resolve_path(St, path).res = "ok"

\* The nodes below and including n in pre-order: a node before its children,
\* children in stored order (fuel bounds the depth).
RECURSIVE PreOrder(_, _, _)
RECURSIVE PreOrderOfAll(_, _, _)
PreOrderOfAll(s, list, fuel) ==
    IF list = <<>> THEN <<>>
    ELSE PreOrder(s, Head(list), fuel) \o PreOrderOfAll(s, Tail(list), fuel)

PreOrder(s, n, fuel) ==
    IF fuel = 0 THEN <<n>> ELSE <<n>> \o PreOrderOfAll(s, s.nodes[n].children, fuel - 1)

\* The nodes of list q whose name is in the set `names`, in the order of q.
NamedIn(s, q, names) == SelectSeq(q, LAMBDA n : s.nodes[n].key \in names)

\* C23: search(pattern) over a tree returns the matching nodes in pre-order:
\* every node of the tree for '*', the nodes named like the pattern for a
\* pattern without '*' and '.'.
C23_SearchReturnsMatchesInPreOrder ==
    (~halted /\ root # NULL) =>
        \A pattern \in Patterns :
            LET w == whereis(St, pattern)
            IN  /\ pattern = "*"
                   => /\ w.res = "ok"
                      /\ w.out = PreOrder(St, root, MaxNodes)
                      /\ SeqToSet(w.out) = TreeNodes(St)
                /\ pattern \in {"a", "b", "~"}
                   => /\ w.res = "ok"
                      /\ w.out = NamedIn(St, PreOrder(St, root, MaxNodes), {pattern})

\* C24: importing the exported record gives a tree of the same shape (names,
\* kinds, nesting, child order) with the same metadata and payload at every
\* node, and exporting the imported tree gives an equal record.
C24_ExportImportRoundTrips ==
    ~halted =>
        LET e == toJSON(St)
            r == fromJSON(St, e.out)
        IN  r.res # "OutOfBounds"
            => /\ e.res = "ok"
               /\ r.res = "ok"
               /\ (root = NULL) = (r.st.root = NULL)
               /\ root # NULL => Isomorphic(St, root, r.st, r.st.root, MaxNodes)
               /\ toJSON(r.st).res = "ok"
               /\ toJSON(r.st).out = e.out

\* Records with a field named like a structural link of the node.
LinkRecords ==
    { Json("~", "dir", NullContents, 0, "parent" :> -1,
           <<Json("b", "file", <<"h">>, 1, "parent" :> -1, <<>>)>>) }

\* The node of s whose child list holds n, NULL for the root.
Holder(s, n) ==
    IF n = s.root THEN NULL
    ELSE CHOOSE p \in TreeNodes(s) : n \in SeqToSet(s.nodes[p].children)

\* No node of s has a property from outside the record schema.
UnknownFieldsDropped(s) == \A n \in TreeNodes(s) : s.nodes[n].extra = EmptyMap

\* The links of every node of s are those the tree gave it: the parent is the
\* node holding it, the name index lists exactly the children.
LinksIntact(s) ==
    \A n \in TreeNodes(s) :
        /\ s.nodes[n].parent = Holder(s, n)
        /\ DOMAIN s.nodes[n].childrenMap = SeqToSet(ChildNames(s, n))
        /\ \A c \in SeqToSet(s.nodes[n].children) :
              s.nodes[n].childrenMap[s.nodes[c].key] = c

\* C25: after an import no node has a field from outside the record schema,
\* and no imported field has replaced a structural link of a node (parent,
\* child list, name index).
C25_ImportKeepsOnlySchemaFields ==
    ~halted =>
        \A json \in ImportRecords \cup LinkRecords :
            LET r == fromJSON(St, json)
            IN  r.res = "ok" => UnknownFieldsDropped(r.st) /\ LinksIntact(r.st)

\* C26: whatever namespace operations have been called, every operation of
\* the tree terminates within a number of steps bounded by the size of the
\* tree: search, depth-first and breadth-first traversal (each visits no
\* more nodes than the tree has), statistics, the depth and the absolute
\* path of every node.
C26_TreeOperationsTerminate ==
    ~halted =>
        /\ TreeStructure_search(St, "*").res = "ok"
        /\ traverseDFS(St).res = "ok"
        /\ Len(traverseDFS(St).out) <= Cardinality(TreeNodes(St))
        /\ traverseBFS(St).res = "ok"
        /\ Len(traverseBFS(St).out) <= Cardinality(TreeNodes(St))
        /\ getStats(St).res = "ok"
        /\ \A n \in TreeNodes(St) :
              getDepth(St, n).res = "ok" /\ ~AbsolutePathHangs(St, n)

\* The outcome r of delete on the matched nodes is what the claim says, the
\* report being `report`.
DeletesMatched(s, r, matched, report) ==
    IF matched = {}
    THEN r.res = "NotFound" /\ r.st = s
    ELSE /\ r.res = "ok"
         /\ matched \cap TreeNodes(r.st) = {}
         /\ s.root \in matched => r.st.root = NULL
         /\ r.out = report

\* C27: delete(nodeOrPattern) detaches every node of the tree matched by the
\* reference or the pattern, empties the tree when the root is among them,
\* returns the number of nodes removed, and fails, changing nothing, when
\* nothing matched.
C27_DeleteReportsTheNumberRemoved ==
    (~halted /\ root # NULL) =>
        /\ \A key \in Patterns :
              DeletesMatched(St, TreeStructure_delete_key(St, key),
                             {n \in TreeNodes(St) : Matches(nodes[n].key, key)},
                             [type |-> "number",
                              value |-> Cardinality({n \in TreeNodes(St) : Matches(nodes[n].key, key)})])
        /\ \A node \in TreeNodes(St) :
              DeletesMatched(St, TreeStructure_delete_node(St, node), {node},
                             [type |-> "number", value |-> 1])

\* The child passes the filters requested by options.
Listed(s, child, options) ==
    /\ ~options.all => ~IsHidden(s.nodes[child].key)
    /\ options.filesOnly => s.nodes[child].type = "file"
    /\ options.dirsOnly => s.nodes[child].type = "dir"

\* The positions of list q, in list order, are in the order `stored`.
InOrderOf(q, stored) ==
    \A i \in 1..Len(q), j \in 1..Len(q) : i < j => IndexOf(stored, q[i]) < IndexOf(stored, q[j])

\* The keys of list q never go down.
SortedByName(s, q) ==
    \A i \in 1..Len(q), j \in 1..Len(q) :
        i < j => localeCompare(s.nodes[q[i]].key, s.nodes[q[j]].key) <= 0

\* C28: ls(path, options) on a path that resolves to a directory returns
\* exactly the children of that directory that pass the filters requested
\* (names starting with '.' only with `all`, only files with filesOnly, only
\* directories with dirsOnly), each once, in stored order without `sort`
\* and in name order with it; the stored child order is never changed; on a
\* path that resolves to something else than a directory ls fails with
\* NotADirectory.
C28_ListReturnsFilteredChildren ==
    ~halted =>
        \A path \in Paths \cup {EmptyStr}, options \in Options :
            LET r == ls(St, path, options)
                d == Resolved(St, path)
            IN  /\ r.st.nodes = nodes
                /\ (d # NULL /\ nodes[d].type # "dir") => r.res = "NotADirectory"
                /\ (d # NULL /\ nodes[d].type = "dir")
                   => /\ r.res = "ok"
                      /\ SeqToSet(r.out) = {c \in SeqToSet(nodes[d].children) : Listed(St, c, options)}
                      /\ Len(r.out) = Cardinality(SeqToSet(r.out))
                      /\ ~options.sort => InOrderOf(r.out, nodes[d].children)
                      /\ options.sort => SortedByName(St, r.out)

\* A directory with a hidden child and two others stored against the name
\* order is listed sorted.
C28_Witness ==
    /\ ~halted
    /\ \E path \in Paths :
          LET r == ls(St, path, [all |-> FALSE, filesOnly |-> FALSE, dirsOnly |-> FALSE, sort |-> TRUE])
          IN  /\ r.res = "ok"
              /\ Len(r.out) >= 2
              /\ ~InOrderOf(r.out, nodes[r.node].children)
              /\ \E c \in SeqToSet(nodes[r.node].children) : IsHidden(nodes[c].key)

\* The sessions pushed and not yet popped after the calls of `log`, oldest
\* first: a pop takes away the one pushed last, if there is one.
RECURSIVE Open(_)
Open(log) ==
    IF log = <<>> THEN <<>>
    ELSE IF log[Len(log)] # "pop" THEN Append(Open(SubSeq(log, 1, Len(log) - 1)), log[Len(log)])
    ELSE IF Open(SubSeq(log, 1, Len(log) - 1)) = <<>> THEN <<>>
    ELSE SubSeq(Open(SubSeq(log, 1, Len(log) - 1)), 1,
                Len(Open(SubSeq(log, 1, Len(log) - 1))) - 1)

\* The session the i-th call of log, a pop, takes away; NoSession when none
\* is open.
Popped(log, i) ==
    LET before == Open(SubSeq(log, 1, i - 1))
    IN  IF before = <<>> THEN NoSession ELSE before[Len(before)]

\* The number of pushes of session x in log.
Pushes(log, x) == Cardinality({i \in 1..Len(log) : log[i] = x})

\* The number of pops in log that take away session x.
Pops(log, x) == Cardinality({i \in 1..Len(log) : log[i] = "pop" /\ Popped(log, i) = x})

\* C29: after any sequence of push and pop calls getCurrent() is the session
\* pushed last among those not yet popped, isActive() holds exactly when
\* there is one, onEnter of a session has run once for every push of it,
\* onExit once for every pop that took it from the stack, and a pop on an
\* empty stack runs no onExit and leaves the stack empty.
C29_SessionsAreLifo ==
    /\ sessionStack = Open(sessionLog)
    /\ getCurrent(Sm) = (IF Open(sessionLog) = <<>> THEN NoSession
                         ELSE Open(sessionLog)[Len(Open(sessionLog))])
    /\ isActive(Sm) = (Open(sessionLog) # <<>>)
    /\ \A x \in Sessions :
          /\ onEnterCalls[x] = Pushes(sessionLog, x)
          /\ onExitCalls[x] = Pops(sessionLog, x)

\* A pop on the empty stack, then two sessions nested and the inner one left:
\* the outer one is current again.
C29_Witness ==
    /\ Len(sessionLog) >= 4
    /\ \E i \in 1..Len(sessionLog) : sessionLog[i] = "pop" /\ Popped(sessionLog, i) = NoSession
    /\ \E i \in 1..Len(sessionLog) : sessionLog[i] = "pop" /\ Popped(sessionLog, i) = "editor"
    /\ getCurrent(Sm) = "python"

\* The path string is canonical: absolute, and either '/' or without an
\* empty, '.' or '..' segment.
Canonical(path) ==
    /\ Len(path) >= 2
    /\ path[1] = ""
    /\ path = Slash \/ \A i \in 2..Len(path) : path[i] \notin {"", ".", ".."}

\* C30: for every path and every current directory _normalizePath returns a
\* canonical absolute path (it starts with '/' and has no empty, '.' or '..'
\* segment), '..' at the top is a no-op, and normalizing the result again
\* returns it unchanged.
C30_NormalizeIsCanonicalAndIdempotent ==
    ~halted =>
        /\ \A path \in Paths \cup {EmptyStr, Dot} :
              /\ ~NormalizeHangs(St, path)
              /\ Canonical(_normalizePath(St, path))
              /\ _normalizePath(St, _normalizePath(St, path)) = _normalizePath(St, path)
        /\ _normalizePath(St, <<"", "..">>) = Slash
        /\ _normalizePath(St, <<"", "..", "a">>) = <<"", "a">>

\* The nodes of s at distance k below the root through child lists.
RECURSIVE LevelOf(_, _)
LevelOf(s, k) ==
    IF k = 0 THEN {s.root}
    ELSE UNION {SeqToSet(s.nodes[n].children) : n \in LevelOf(s, k - 1)}

\* The depth of node n of the tree of s: its least distance below the root.
DepthInTree(s, n) == CHOOSE k \in 0..MaxNodes : n \in LevelOf(s, k) /\ \A j \in 0..(k - 1) : n \notin LevelOf(s, j)

\* List q holds every node of the tree of s exactly once.
VisitsEachOnce(s, q) ==
    /\ SeqToSet(q) = TreeNodes(s)
    /\ Len(q) = Cardinality(TreeNodes(s))

\* C31: traverseDFS visits every node reachable from the root exactly once,
\* in the order of the recursive pre-order of search('*') (a parent before
\* its children, children in stored order); traverseBFS visits every node
\* exactly once, in non-decreasing depth.
C31_TraversalsVisitEachNodeOnce ==
    (~halted /\ root # NULL) =>
        /\ traverseDFS(St).res = "ok"
        /\ VisitsEachOnce(St, traverseDFS(St).out)
        /\ TreeStructure_search(St, "*").res = "ok"
        /\ traverseDFS(St).out = TreeStructure_search(St, "*").out
        /\ traverseBFS(St).res = "ok"
        /\ VisitsEachOnce(St, traverseBFS(St).out)
        /\ \A i \in 1..Len(traverseBFS(St).out), j \in 1..Len(traverseBFS(St).out) :
              i < j => DepthInTree(St, traverseBFS(St).out[i]) <= DepthInTree(St, traverseBFS(St).out[j])

\* The matcher the patterns are meant to be: `*` matches zero or more
\* characters, every other character of the pattern only itself, and the
\* whole key has to match.
RECURSIVE GlobTest(_, _)
GlobTest(p, k) ==
    IF p = <<>> THEN k = <<>>
    ELSE IF Head(p) = "*"
    THEN GlobTest(Tail(p), k) \/ (k # <<>> /\ GlobTest(p, Tail(k)))
    ELSE k # <<>> /\ Head(k) = Head(p) /\ GlobTest(Tail(p), Tail(k))

\* C32: for a pattern with '*' or '.', search returns the nodes whose whole
\* name matches the pattern with '*' standing for zero or more arbitrary
\* characters and every other character, '.', '?' and '(' among them, for
\* itself.
C32_PatternCharactersAreLiteral ==
    (~halted /\ root # NULL /\ ~RecursionOverflows(St, root)) =>
        \A pattern \in {x \in Patterns \cup RegexPatterns : UsesRegex(x)} :
            /\ whereis(St, pattern).res = "ok"
            /\ SeqToSet(whereis(St, pattern).out)
                  = {n \in TreeNodes(St) : GlobTest(Chars(pattern), Chars(nodes[n].key))}

\* Following parent links from n ends at a node without parent.
ParentChainEnds(s, n) == DepthLoop(s, n, MaxNodes) # -1

\* C33: whatever namespace operations have been called, no node is its own
\* parent or ancestor and no node is in its own child list: following the
\* parent links from any node ends at a node without parent, also after mv
\* with a source equal to its destination.
C33_NoNodeIsItsOwnAncestor ==
    \A n \in Objects(St) :
        /\ nodes[n].parent # n
        /\ n \notin SeqToSet(nodes[n].children)
        /\ n \notin ProperDescendants(St, n)
        /\ ParentChainEnds(St, n)

\* C34: in every reachable state only directories have children: no
\* operation, a write whose parent path resolves to a file included, inserts
\* a child under a node that is not a directory.
C34_OnlyDirectoriesHaveChildren ==
    \A n \in Objects(St) : nodes[n].children # <<>> => nodes[n].type = "dir"

\* C35: once the file system is initialized, the current directory is a
\* directory of the tree, reachable from the root, never a removed or
\* detached node, and the path pwd() returns resolves to it.
C35_CwdIsADirectoryOfTheTree ==
    (~halted /\ root # NULL) =>
        /\ cwd \in TreeNodes(St)
        /\ nodes[cwd].type = "dir"
        /\ ~AbsolutePathHangs(St, cwd)
        /\ Resolved(St, _absolute_path(St, cwd)) = cwd

\* C36: rmdir of a directory that is not the current directory leaves the
\* current directory as it was, whatever the names of the removed directory
\* and of the segments of the current directory's path.
C36_RmdirElsewhereKeepsCwd ==
    ~halted =>
        \A path \in Paths :
            (rmdir(St, path).res = "ok" /\ Target(St, path) # cwd)
                => rmdir(St, path).st.cwd = cwd

\* C37: for every node reachable from the root, resolving the absolute path
\* computed for the node returns the node, nodes made by mkdir with '.' or
\* '..' segments in its argument and renamed nodes included.
C37_AbsolutePathResolvesToTheNode ==
    (~halted /\ root # NULL) =>
        \A n \in TreeNodes(St) :
            /\ ~AbsolutePathHangs(St, n)
            /\ Resolved(St, _absolute_path(St, n)) = n

\* The successful copy r made in s changed no object that existed but the
\* destination, which has the new node as its last child and is otherwise as
\* it was; the root and the current directory are as they were.
OnlyTheDestinationGainedAChild(s, r) ==
    /\ r.st.root = s.root
    /\ r.st.cwd = s.cwd
    /\ r.node \notin Objects(s)
    /\ \A m \in Objects(s) \ {r.dst} : r.st.nodes[m] = s.nodes[m]
    /\ r.st.nodes[r.dst].children = Append(s.nodes[r.dst].children, r.node)
    /\ r.st.nodes[r.dst] = [s.nodes[r.dst] EXCEPT
                               !.children = Append(@, r.node),
                               !.childrenMap = MapSet(@, s.nodes[r.src].key, r.node)]

\* C38: a successful cp(a, b) changes no node that existed, except that b
\* has one more child, the copy, last in its child order: every other node
\* keeps name, kind, payload, identity, properties, parent and children, b
\* all of these but its children, and the current directory stays; when b
\* has a child of a's name already, cp fails and nothing changes.
C38_CopyChangesOnlyTheDestination ==
    ~halted =>
        \A source \in Paths, destination \in Paths :
            LET r == cp(St, source, destination)
            IN  /\ r.res = "ok" => OnlyTheDestinationGainedAChild(St, r)
                /\ (/\ Resolved(St, source) # NULL
                    /\ ResolvesToDirectory(St, destination)
                    /\ nodes[Resolved(St, source)].key
                          \in SeqToSet(ChildNames(St, Resolved(St, destination))))
                   => Failed(r) /\ NothingChanged(St, r)

\* A copy into a directory that has children and is not the current
\* directory succeeds, and another fails for a child of that name.
C38_Witness ==
    /\ ~halted
    /\ \E source \in Paths, destination \in Paths :
          /\ cp(St, source, destination).res = "ok"
          /\ nodes[cp(St, source, destination).dst].children # <<>>
          /\ cp(St, source, destination).dst # cwd
    /\ \E source \in Paths, destination \in Paths :
          cp(St, source, destination).res = "DuplicateName"


\* The name index of node n in s and its ordered child list describe the
\* same children: one entry per child, under the child's current name.
IndexAgrees(s, n) ==
    /\ DOMAIN s.nodes[n].childrenMap = SeqToSet(ChildNames(s, n))
    /\ Cardinality(DOMAIN s.nodes[n].childrenMap) = Len(s.nodes[n].children)
    /\ \A c \in SeqToSet(s.nodes[n].children) :
          findChild(s, n, s.nodes[c].key) = c
    /\ \A x \in DOMAIN s.nodes[n].childrenMap \cup SeqToSet(ChildNames(s, n)) :
          (findChild(s, n, x) # NULL) <=> (x \in SeqToSet(ChildNames(s, n)))

\* Every node of s has an index that agrees with its child list.
IndexesAgree(s) == \A n \in Objects(s) : IndexAgrees(s, n)

====
